---- MODULE Spec2Model ----
(***************************************************************************)
(* TAPjack: a four-seat blackjack round engine driven by an ultrasonic     *)
(* gesture classifier (src/TAPjack.c).  The module models                  *)
(*   - the deck (initDeck, shuffleDeck), the hands (emptyHand, dealCard,   *)
(*     split) and the round driver (main, playTurn, dispResults): Spec;    *)
(*   - dealCard and split called directly on arbitrary card sequences:     *)
(*     SpecCalls;                                                          *)
(*   - the gesture classifier (USS_move, userInput): SpecUSS.              *)
(***************************************************************************)
EXTENDS Integers, Sequences, FiniteSets, TLC

\* ------------------------------------------------------------------------
\* Program constants (src/TAPjack.c, #define block)
\* ------------------------------------------------------------------------
THRESHOLD == 200
WIDTH == 22
DIST_HIT == 8
DIST_STAY == 35
SINGLEDECK == 52
MAXSUIT == 13
MAXHAND == 12
HIT == 1
STAY == 2
NOACTION == 3
ERROR == 0
DEALER == 0
P1 == 1
P4 == 4
LastRound == 999

\* ------------------------------------------------------------------------
\* Bounds of the model
\* ------------------------------------------------------------------------
\* rounds the round loop of main is followed for
MaxRound == 2
\* number of rand() index streams a shuffle can draw from
NumSeeds == 3
\* number of deck positions whose rank is free when dealCard and split are
\* called directly
MaxDeal == 3
\* USS_move calls followed within one userInput call
MaxMoves == 3
\* timer overflows followed while one USS_distance call is under way
MaxOverflows == 3
\* the hand values drawn for the outcome display are 0..MaxValue
MaxValue == 31

\* ------------------------------------------------------------------------
\* State
\* ------------------------------------------------------------------------
VARIABLES
    rankG,      \* int rankG[SINGLEDECK]
    suitG,      \* char suitG[SINGLEDECK]
    indexG,     \* index of the next unassigned card of the deck
    hands,      \* the nine hand structs p1a .. p4b, dealer
    pc,         \* position of main
    round,      \* loop variable of main's round loop
    pNow,       \* loop variable of main's seat loop (the ID of playTurn)
    askSplit,   \* playTurn's local askSplit
    tpc,        \* position inside playTurn: "A" first hand, "B" second hand
    shufI,      \* loop variable i of shuffleDeck
    seed,       \* the rand() stream the running shuffle draws from
    msg,        \* the last status text sent to the terminal
    report,     \* what dispResults sent for each seat hand
    upc,        \* position of userInput: "idle", "clear" (first loop),
                \* "commit" (second loop)
    mpc,        \* position of USS_move: "entry", "loop", "ret"
    countS,     \* USS_move's local countS
    countH,     \* USS_move's local countH
    countN,     \* USS_move's local countN
    distance,   \* USS_move's local distance
    moveRet,    \* the value USS_move returned last
    inputRet,   \* the value userInput returned last
    cls,        \* history: the values USS_move returned in this userInput call
    sameZone,   \* history: how many sensor samples in a row, up to the
                \* latest, fell in the latest sample's zone
    timerOverflow,  \* int timerOverflow, written by ISR(TIMER1_OVF_vect)
    dpc,        \* position of USS_distance
    icf,        \* the input-capture flag ICF1 of TIFR1
    part,       \* the byte of timerOverflow USS_distance read first
    ovfUsed,    \* the value of timerOverflow that went into count
    trueOvf     \* history: timer overflows between the end of the clear of
                \* timerOverflow and the capture of the falling edge

engineVars == <<rankG, suitG, indexG, hands, pc, round, pNow, askSplit, tpc,
                shufI, seed, msg, report>>

ussVars == <<upc, mpc, countS, countH, countN, distance, moveRet, inputRet,
             cls, sameZone>>

timerVars == <<timerOverflow, dpc, icf, part, ovfUsed, trueOvf>>

vars == <<rankG, suitG, indexG, hands, pc, round, pNow, askSplit, tpc,
          shufI, seed, msg, report, upc, mpc, countS, countH, countN,
          distance, moveRet, inputRet, cls, sameZone, timerOverflow, dpc,
          icf, part, ovfUsed, trueOvf>>

Suits == {"h", "d", "c", "s"}
\* the character 0 emptyHand stores into suit[]
NUL == ""

PrimaryOf(ID) == CASE ID = 1 -> "p1a" [] ID = 2 -> "p2a"
                   [] ID = 3 -> "p3a" [] ID = 4 -> "p4a"
SecondaryOf(ID) == CASE ID = 1 -> "p1b" [] ID = 2 -> "p2b"
                     [] ID = 3 -> "p3b" [] ID = 4 -> "p4b"

\* selectPlayer that hands out the first seat's hands whatever the seat asked
\* for
selectPlayer_AlwaysFirstSeat(ID) == [pA |-> PrimaryOf(1), pB |-> SecondaryOf(1)]

\* selectPlayer(ID, &pA, &pB)
selectPlayer(ID) == [pA |-> PrimaryOf(ID), pB |-> SecondaryOf(ID)]

PlayerHands == {"p1a", "p1b", "p2a", "p2b", "p3a", "p3b", "p4a", "p4b"}
HandNames == PlayerHands \cup {"dealer"}

\* ------------------------------------------------------------------------
\* Deck
\* ------------------------------------------------------------------------
\* initDeck: the suit and the rank stored at position i
initSuit(i) == IF i > 3 * MAXSUIT - 1 THEN "h"
               ELSE IF i > 2 * MAXSUIT - 1 THEN "d"
               ELSE IF i > MAXSUIT - 1 THEN "c"
               ELSE "s"
initRank(i) == (i % MAXSUIT) + 1

initDeck == [rank |-> [i \in 0..(SINGLEDECK - 1) |-> initRank(i)],
             suit |-> [i \in 0..(SINGLEDECK - 1) |-> initSuit(i)]]

\* rand() % SINGLEDECK for iteration i of a shuffle: rand() is the C
\* library generator; a shuffle draws its 52 indices from stream s
randIndex(s, i) == (7 * i + s) % SINGLEDECK

\* swapStep without the temporaries: position i is read back after position
\* j was overwritten
swapStep_NoTemp(d, i, j) ==
    LET r1 == [d.rank EXCEPT ![j] = d.rank[i]]
        s1 == [d.suit EXCEPT ![j] = d.suit[i]]
    IN [rank |-> [r1 EXCEPT ![i] = r1[j]],
        suit |-> [s1 EXCEPT ![i] = s1[j]]]

\* one iteration of shuffleDeck's loop: swap positions i and j through the
\* temporaries tempR, tempS
swapStep(d, i, j) ==
    LET tempR == d.rank[j]
        tempS == d.suit[j]
        r1 == [d.rank EXCEPT ![j] = d.rank[i]]
        s1 == [d.suit EXCEPT ![j] = d.suit[i]]
    IN [rank |-> [r1 EXCEPT ![i] = tempR],
        suit |-> [s1 EXCEPT ![i] = tempS]]

\* ------------------------------------------------------------------------
\* Hands
\* ------------------------------------------------------------------------
\* emptyHand that leaves the size, the value and the first face-down flag
\* of a used hand behind
emptyHand_LeavesFields ==
    [rank |-> [i \in 0..(MAXHAND - 1) |-> 0],
     suit |-> [i \in 0..(MAXHAND - 1) |-> NUL],
     isFaceDown |-> [i \in 0..(MAXHAND - 1) |-> IF i = 0 THEN 1 ELSE 0],
     handsize |-> 2, handvalue |-> 20, busted |-> 0, soft |-> 0,
     empty |-> 1]

\* emptyHand(p)
emptyHand == [rank |-> [i \in 0..(MAXHAND - 1) |-> 0],
              suit |-> [i \in 0..(MAXHAND - 1) |-> NUL],
              isFaceDown |-> [i \in 0..(MAXHAND - 1) |-> 0],
              handsize |-> 0, handvalue |-> 0, busted |-> 0, soft |-> 0,
              empty |-> 1]

\* scoreCard that never takes an Ace back from 11 to 1
scoreCard_NoReinterpret(p, rank) ==
    LET p2 == IF rank = 1
              THEN [p EXCEPT !.handvalue = @ + 11, !.soft = @ + 1]
              ELSE IF rank \in 10..13
              THEN [p EXCEPT !.handvalue = @ + 10]
              ELSE [p EXCEPT !.handvalue = @ + rank]
    IN IF p2.handvalue > 21 THEN [p2 EXCEPT !.busted = 1] ELSE p2

\* scoreCard that stops counting an Ace as soft once the hand stands at 21
scoreCard_CapsAt21(p, rank) ==
    LET p2 == IF rank = 1
              THEN [p EXCEPT !.handvalue = @ + 11, !.soft = @ + 1]
              ELSE IF rank \in 10..13
              THEN [p EXCEPT !.handvalue = @ + 10]
              ELSE [p EXCEPT !.handvalue = @ + rank]
    IN IF p2.handvalue > 21
       THEN IF p2.soft > 0
            THEN [p2 EXCEPT !.handvalue = @ - 10, !.soft = @ - 1]
            ELSE [p2 EXCEPT !.busted = 1]
       ELSE IF p2.handvalue = 21 THEN [p2 EXCEPT !.soft = 0]
       ELSE p2

\* scoreCard that reinterprets Aces for as long as the hand is over 21
scoreCard_Repeats(p, rank) ==
    LET p2 == IF rank = 1
              THEN [p EXCEPT !.handvalue = @ + 11, !.soft = @ + 1]
              ELSE IF rank \in 10..13
              THEN [p EXCEPT !.handvalue = @ + 10]
              ELSE [p EXCEPT !.handvalue = @ + rank]
        p3 == IF p2.handvalue > 21 /\ p2.soft > 0
              THEN [p2 EXCEPT !.handvalue = @ - 10, !.soft = @ - 1]
              ELSE p2
    IN IF p3.handvalue > 21
       THEN IF p3.soft > 0
            THEN [p3 EXCEPT !.handvalue = @ - 10, !.soft = @ - 1]
            ELSE IF p2.soft > 0 THEN p3 ELSE [p3 EXCEPT !.busted = 1]
       ELSE p3

\* dealCard, the switch on rank and the check against 21 that follows it:
\* hand p after a card of the given rank is scored
scoreCard(p, rank) ==
    LET p2 == IF rank = 1
              THEN [p EXCEPT !.handvalue = @ + 11, !.soft = @ + 1]
              ELSE IF rank \in 10..13
              THEN [p EXCEPT !.handvalue = @ + 10]
              ELSE [p EXCEPT !.handvalue = @ + rank]
    IN IF p2.handvalue > 21
       THEN IF p2.soft > 0
            THEN [p2 EXCEPT !.handvalue = @ - 10, !.soft = @ - 1]
            ELSE [p2 EXCEPT !.busted = 1]
       ELSE p2

\* dealCard that finds the deck exhausted once the initial deal's cards are
\* gone
dealCard_NothingAfterDeal(st, h) ==
    LET p == st.hands[h] IN
    IF st.indexG >= 2 * (P4 + 1) + 1 \/ p.handsize >= MAXHAND
    THEN [st EXCEPT !.msg = "ERROR: Cannot Deal Card!"]
    ELSE
      LET rank == rankG[st.indexG]
          p1 == [p EXCEPT !.rank[p.handsize] = rank,
                          !.suit[p.handsize] = suitG[st.indexG],
                          !.handsize = @ + 1]
      IN [st EXCEPT !.hands[h] = [scoreCard(p1, rank) EXCEPT !.empty = 0],
                    !.indexG = @ + 1]

\* dealCard that wraps round to position 0 instead of failing on an
\* exhausted deck
dealCard_Wrap(st, h) ==
    LET p == st.hands[h] IN
    IF p.handsize >= MAXHAND
    THEN [st EXCEPT !.msg = "ERROR: Cannot Deal Card!"]
    ELSE
      LET rank == rankG[st.indexG % SINGLEDECK]
          p1 == [p EXCEPT !.rank[p.handsize] = rank,
                          !.suit[p.handsize] = suitG[st.indexG % SINGLEDECK],
                          !.handsize = @ + 1]
      IN [st EXCEPT !.hands[h] = [scoreCard(p1, rank) EXCEPT !.empty = 0],
                    !.indexG = (st.indexG % SINGLEDECK) + 1]

\* dealCard without the test of the hand's size
dealCard_NoHandCheck(st, h) ==
    LET p == st.hands[h] IN
    IF st.indexG >= SINGLEDECK
    THEN [st EXCEPT !.msg = "ERROR: Cannot Deal Card!"]
    ELSE
      LET rank == rankG[st.indexG]
          p1 == [p EXCEPT !.rank[p.handsize] = rank,
                          !.suit[p.handsize] = suitG[st.indexG],
                          !.handsize = @ + 1]
      IN [st EXCEPT !.hands[h] = [scoreCard(p1, rank) EXCEPT !.empty = 0],
                    !.indexG = @ + 1]

\* dealCard that does not clear the hand's empty flag
dealCard_LeavesEmptySet(st, h) ==
    LET p == st.hands[h] IN
    IF st.indexG >= SINGLEDECK \/ p.handsize >= MAXHAND
    THEN [st EXCEPT !.msg = "ERROR: Cannot Deal Card!"]
    ELSE
      LET rank == rankG[st.indexG]
          p1 == [p EXCEPT !.rank[p.handsize] = rank,
                          !.suit[p.handsize] = suitG[st.indexG],
                          !.handsize = @ + 1]
      IN [st EXCEPT !.hands[h] = scoreCard(p1, rank),
                    !.indexG = @ + 1]

\* dealCard(p): st carries the deck cursor, the hands and the last text sent
dealCard(st, h) ==
    LET p == st.hands[h] IN
    IF st.indexG >= SINGLEDECK \/ p.handsize >= MAXHAND
    THEN [st EXCEPT !.msg = "ERROR: Cannot Deal Card!"]
    ELSE
      LET rank == rankG[st.indexG]
          p1 == [p EXCEPT !.rank[p.handsize] = rank,
                          !.suit[p.handsize] = suitG[st.indexG],
                          !.handsize = @ + 1]
      IN [st EXCEPT !.hands[h] = [scoreCard(p1, rank) EXCEPT !.empty = 0],
                    !.indexG = @ + 1]

\* splitMove that copies the second card to the second hand without taking it
\* from the first
splitMove_KeepsCard(st, ID) ==
    LET pA == selectPlayer(ID).pA
        pB == selectPlayer(ID).pB
        cardR == st.hands[pA].rank[1]
        cardS == st.hands[pA].suit[1]
        b1 == [st.hands[pB] EXCEPT !.rank[0] = cardR, !.suit[0] = cardS,
                                   !.handsize = @ + 1,
                                   !.handvalue = @ + cardR]
        b2 == IF cardR = 1 THEN [b1 EXCEPT !.soft = 1, !.handvalue = 11]
              ELSE b1
    IN [st EXCEPT !.hands[pB] = b2, !.msg = "You split!"]

\* split(ID), up to the two dealCard calls: the second card of the first
\* hand is copied to the second hand and the sizes and values are adjusted
splitMove(st, ID) ==
    LET pA == selectPlayer(ID).pA
        pB == selectPlayer(ID).pB
        cardR == st.hands[pA].rank[1]
        cardS == st.hands[pA].suit[1]
        b1 == [st.hands[pB] EXCEPT !.rank[0] = cardR, !.suit[0] = cardS,
                                   !.handsize = @ + 1,
                                   !.handvalue = @ + cardR]
        a1 == [st.hands[pA] EXCEPT !.handsize = @ - 1,
                                   !.handvalue = @ - cardR]
        b2 == IF cardR = 1 THEN [b1 EXCEPT !.soft = 1, !.handvalue = 11]
              ELSE b1
        a2 == IF cardR = 1 THEN [a1 EXCEPT !.soft = 1, !.handvalue = 11]
              ELSE a1
    IN [st EXCEPT !.hands[pA] = a2, !.hands[pB] = b2, !.msg = "You split!"]

\* split with a precondition check the source does not have
split_Checked(st, ID) ==
    IF st.hands[selectPlayer(ID).pA].rank[0]
           = st.hands[selectPlayer(ID).pA].rank[1]
    THEN dealCard(dealCard(splitMove(st, ID), selectPlayer(ID).pA),
                  selectPlayer(ID).pB)
    ELSE st

\* split that deals to the second hand before the first
split_SecondHandFirst(st, ID) ==
    dealCard(dealCard(splitMove(st, ID), selectPlayer(ID).pB),
             selectPlayer(ID).pA)

\* split(ID): the move, then one card dealt to the first hand and one to the
\* second
split(st, ID) ==
    dealCard(dealCard(splitMove(st, ID), selectPlayer(ID).pA),
             selectPlayer(ID).pB)

\* the part of the state dealCard and split work on
Cur == [hands |-> hands, indexG |-> indexG, msg |-> msg]

\* ------------------------------------------------------------------------
\* Round driver: main, playTurn, dispResults
\* ------------------------------------------------------------------------
NoReport == [h \in PlayerHands |-> "none"]

\* the classifier at rest (before any userInput call)
InitUSSVars ==
    /\ upc = "idle"
    /\ mpc = "entry"
    /\ countS = 0
    /\ countH = 0
    /\ countN = 0
    /\ distance = 0
    /\ moveRet = ERROR
    /\ inputRet = ERROR
    /\ cls = <<>>
    /\ sameZone = 0

\* the timer at rest (before any USS_distance call)
InitTimerVars ==
    /\ timerOverflow = 0
    /\ dpc = "idle"
    /\ icf = 0
    /\ part = 0
    /\ ovfUsed = 0
    /\ trueOvf = 0

Init ==
    /\ InitUSSVars
    /\ InitTimerVars
    /\ rankG = initDeck.rank
    /\ suitG = initDeck.suit
    /\ indexG = 0
    /\ hands = [h \in HandNames |-> emptyHand]
    /\ pc = "newRound"
    /\ round = 1
    /\ pNow = 0
    /\ askSplit = 0
    /\ tpc = "-"
    /\ shufI = 0
    /\ seed = 0
    /\ msg = ""
    /\ report = NoReport

\* inRoundLoop with the loop left one round early
inRoundLoop_StopsEarly(r) == r < LastRound

\* main: the test of the round loop
inRoundLoop(r) == r <= LastRound

\* main: dispRound(round); newRound() -- every hand emptied, shuffleDeck
\* entered (indexG = 0, i = 0).  The loop is followed for its first
\* MaxRound rounds and for its last MaxRound rounds.
NewRound ==
    /\ pc = "newRound"
    /\ inRoundLoop(round)
    /\ round <= MaxRound \/ round > LastRound - MaxRound
    /\ seed' \in 1..NumSeeds
    /\ shufI' = 0
    /\ indexG' = 0
    /\ hands' = [h \in HandNames |-> emptyHand]
    /\ msg' = "Round"
    /\ report' = NoReport
    /\ pc' = "shuffle"
    /\ UNCHANGED ussVars
    /\ UNCHANGED timerVars
    /\ UNCHANGED <<rankG, suitG, round, pNow, askSplit, tpc>>

\* shuffleDeck: one iteration of the loop; newRound returns after the last
ShuffleStep ==
    /\ pc = "shuffle"
    /\ shufI < SINGLEDECK
    /\ LET d == swapStep([rank |-> rankG, suit |-> suitG], shufI,
                         randIndex(seed, shufI)) IN
         /\ rankG' = d.rank
         /\ suitG' = d.suit
    /\ shufI' = shufI + 1
    /\ pc' = IF shufI + 1 < SINGLEDECK THEN "shuffle" ELSE "deal"
    /\ seed' = IF shufI + 1 < SINGLEDECK THEN seed ELSE 0
    /\ UNCHANGED ussVars
    /\ UNCHANGED timerVars
    /\ UNCHANGED <<indexG, hands, round, pNow, askSplit, tpc, msg, report>>

\* DealOrder that gives each hand its two cards in one go
DealOrder_SeatBySeat == <<"p1a", "p1a", "p2a", "p2a", "p3a", "p3a",
                          "p4a", "p4a", "dealer", "dealer">>

\* the order of the starting deal
DealOrder == <<"p1a", "p2a", "p3a", "p4a", "dealer",
               "p1a", "p2a", "p3a", "p4a", "dealer">>

\* main's deal loop: dealCard for each hand of hs in turn, each call working
\* on the state the call before it left
RECURSIVE dealAll(_, _)
dealAll(st, hs) ==
    IF hs = <<>> THEN st
    ELSE CHOOSE r \in {dealAll(s, Tail(hs)) : s \in {dealCard(st, Head(hs))}} :
           TRUE

\* main: the starting deal, the dealer's first card hidden, then playTurn(P1)
\* is entered (askSplit = 1)
InitialDeal ==
    /\ pc = "deal"
    /\ LET st == dealAll(Cur, DealOrder) IN
         /\ hands' = [st.hands EXCEPT !["dealer"].isFaceDown[0] = 1]
         /\ indexG' = st.indexG
         /\ msg' = IF st.msg = msg THEN "PLAYER'S TURN" ELSE st.msg
    /\ pc' = "turn"
    /\ pNow' = P1
    /\ askSplit' = 1
    /\ tpc' = "A"
    /\ UNCHANGED ussVars
    /\ UNCHANGED timerVars
    /\ UNCHANGED <<rankG, suitG, round, shufI, seed, report>>

\* ReturnFromTurn that leaves the dealer's first card hidden
ReturnFromTurn_KeepsHidden(hs) ==
    IF pNow < P4
    THEN /\ hands' = hs
         /\ pNow' = pNow + 1
         /\ askSplit' = 1
         /\ tpc' = "A"
         /\ pc' = "turn"
    ELSE /\ hands' = hs
         /\ pNow' = 0
         /\ askSplit' = 0
         /\ tpc' = "-"
         /\ pc' = "dealer"

\* ReturnFromTurn whose seat loop stops one seat early
ReturnFromTurn_StopsAtSeat3(hs) ==
    IF pNow < P4 - 1
    THEN /\ hands' = hs
         /\ pNow' = pNow + 1
         /\ askSplit' = 1
         /\ tpc' = "A"
         /\ pc' = "turn"
    ELSE /\ hands' = [hs EXCEPT !["dealer"].isFaceDown[0] = 0]
         /\ pNow' = 0
         /\ askSplit' = 0
         /\ tpc' = "-"
         /\ pc' = "dealer"

\* playTurn returns: main's seat loop goes to the next seat, or shows the
\* dealer's first card and enters the dealer's loop
ReturnFromTurn(hs) ==
    IF pNow < P4
    THEN /\ hands' = hs
         /\ pNow' = pNow + 1
         /\ askSplit' = 1
         /\ tpc' = "A"
         /\ pc' = "turn"
    ELSE /\ hands' = [hs EXCEPT !["dealer"].isFaceDown[0] = 0]
         /\ pNow' = 0
         /\ askSplit' = 0
         /\ tpc' = "-"
         /\ pc' = "dealer"

\* LeaveFirstLoop without the test of the second hand's empty flag
LeaveFirstLoop_AlwaysSecond ==
    /\ tpc' = "B"
    /\ UNCHANGED <<hands, pNow, askSplit, pc>>

\* break out of playTurn's first loop: return if the second hand is empty,
\* else enter the second loop
LeaveFirstLoop ==
    IF hands[selectPlayer(pNow).pB].empty # 0
    THEN ReturnFromTurn(hands)
    ELSE /\ tpc' = "B"
         /\ UNCHANGED <<hands, pNow, askSplit, pc>>

\* canSplit without the askSplit flag
canSplit_NoFlag(p, ask) == p.rank[0] = p.rank[1]

\* playTurn: the test that guards the split question
canSplit(p, ask) == p.rank[0] = p.rank[1] /\ ask # 0

\* the split question that leaves askSplit set when the answer is STAY
TurnSplitOffer_DeclineKeepsFlag ==
    /\ pc = "turn" /\ tpc = "A"
    /\ canSplit(hands[selectPlayer(pNow).pA], askSplit)
    /\ \E choice \in {HIT, STAY} :
         LET st == IF choice = HIT THEN split(Cur, pNow)
                   ELSE [Cur EXCEPT !.msg = "SPLIT?"] IN
         /\ hands' = st.hands
         /\ indexG' = st.indexG
         /\ msg' = st.msg
         /\ askSplit' = IF choice = HIT THEN 0 ELSE askSplit
    /\ UNCHANGED ussVars
    /\ UNCHANGED timerVars
    /\ UNCHANGED <<rankG, suitG, pc, round, pNow, tpc, shufI, seed, report>>

\* playTurn, first loop, branch: the split question
TurnSplitOffer ==
    /\ pc = "turn" /\ tpc = "A"
    /\ canSplit(hands[selectPlayer(pNow).pA], askSplit)
    /\ \E choice \in {HIT, STAY} :
         LET st == IF choice = HIT THEN split(Cur, pNow)
                   ELSE [Cur EXCEPT !.msg = "SPLIT?"] IN
         /\ hands' = st.hands
         /\ indexG' = st.indexG
         /\ msg' = st.msg
    /\ askSplit' = 0
    /\ UNCHANGED ussVars
    /\ UNCHANGED timerVars
    /\ UNCHANGED <<rankG, suitG, pc, round, pNow, tpc, shufI, seed, report>>

\* playTurn, first loop, branch: the hand is busted
TurnBustedA ==
    /\ pc = "turn" /\ tpc = "A"
    /\ LET pA == hands[selectPlayer(pNow).pA] IN
         /\ ~canSplit(pA, askSplit)
         /\ pA.busted # 0
    /\ msg' = "You BUSTED!"
    /\ LeaveFirstLoop
    /\ UNCHANGED ussVars
    /\ UNCHANGED timerVars
    /\ UNCHANGED <<rankG, suitG, indexG, round, shufI, seed, report>>

\* playTurn, first loop, branch: the hand is worth 21
TurnTapjackA ==
    /\ pc = "turn" /\ tpc = "A"
    /\ LET pA == hands[selectPlayer(pNow).pA] IN
         /\ ~canSplit(pA, askSplit)
         /\ pA.busted = 0
         /\ pA.handvalue = 21
    /\ msg' = "You got TAPJACK!"
    /\ LeaveFirstLoop
    /\ UNCHANGED ussVars
    /\ UNCHANGED timerVars
    /\ UNCHANGED <<rankG, suitG, indexG, round, shufI, seed, report>>

\* CanChoose without the test for a busted hand
CanChoose_IgnoresBust(p) == p.handvalue # 21

\* CanChoose without the test for 21
CanChoose_At21(p) == p.busted = 0

\* the guard of playTurn's hit-or-stay branch for hand p
CanChoose(p) == p.busted = 0 /\ p.handvalue # 21

\* playTurn, first loop, branch: HIT or STAY?, answered HIT
TurnHitA ==
    /\ pc = "turn" /\ tpc = "A"
    /\ LET pA == hands[selectPlayer(pNow).pA] IN
         /\ ~canSplit(pA, askSplit)
         /\ CanChoose(pA)
    /\ LET st == dealCard([Cur EXCEPT !.msg = "You hit!"],
                          selectPlayer(pNow).pA) IN
         /\ hands' = st.hands
         /\ indexG' = st.indexG
         /\ msg' = st.msg
    /\ UNCHANGED ussVars
    /\ UNCHANGED timerVars
    /\ UNCHANGED <<rankG, suitG, pc, round, pNow, askSplit, tpc, shufI, seed,
                   report>>

\* playTurn, first loop, branch: HIT or STAY?, answered STAY
TurnStayA ==
    /\ pc = "turn" /\ tpc = "A"
    /\ LET pA == hands[selectPlayer(pNow).pA] IN
         /\ ~canSplit(pA, askSplit)
         /\ CanChoose(pA)
    /\ msg' = "You stayed!"
    /\ LeaveFirstLoop
    /\ UNCHANGED ussVars
    /\ UNCHANGED timerVars
    /\ UNCHANGED <<rankG, suitG, indexG, round, shufI, seed, report>>

\* playTurn, second loop, branch: the second hand is busted
TurnBustedB ==
    /\ pc = "turn" /\ tpc = "B"
    /\ hands[selectPlayer(pNow).pB].busted # 0
    /\ msg' = "You BUSTED!"
    /\ ReturnFromTurn(hands)
    /\ UNCHANGED ussVars
    /\ UNCHANGED timerVars
    /\ UNCHANGED <<rankG, suitG, indexG, round, shufI, seed, report>>

\* playTurn, second loop, branch: the second hand is worth 21
TurnTapjackB ==
    /\ pc = "turn" /\ tpc = "B"
    /\ LET pB == hands[selectPlayer(pNow).pB] IN
         pB.busted = 0 /\ pB.handvalue = 21
    /\ msg' = "You got TAPJACK!"
    /\ ReturnFromTurn(hands)
    /\ UNCHANGED ussVars
    /\ UNCHANGED timerVars
    /\ UNCHANGED <<rankG, suitG, indexG, round, shufI, seed, report>>

\* playTurn, second loop, branch: HIT or STAY?, answered HIT
TurnHitB ==
    /\ pc = "turn" /\ tpc = "B"
    /\ CanChoose(hands[selectPlayer(pNow).pB])
    /\ LET st == dealCard([Cur EXCEPT !.msg = "You hit!"],
                          selectPlayer(pNow).pB) IN
         /\ hands' = st.hands
         /\ indexG' = st.indexG
         /\ msg' = st.msg
    /\ UNCHANGED ussVars
    /\ UNCHANGED timerVars
    /\ UNCHANGED <<rankG, suitG, pc, round, pNow, askSplit, tpc, shufI, seed,
                   report>>

\* playTurn, second loop, branch: HIT or STAY?, answered STAY
TurnStayB ==
    /\ pc = "turn" /\ tpc = "B"
    /\ CanChoose(hands[selectPlayer(pNow).pB])
    /\ msg' = "You stayed!"
    /\ ReturnFromTurn(hands)
    /\ UNCHANGED ussVars
    /\ UNCHANGED timerVars
    /\ UNCHANGED <<rankG, suitG, indexG, round, shufI, seed, report>>

\* DealerDraws without the soft-17 clause
DealerDraws_StandOnSoft17(d) == d.handvalue < 17

\* DealerDraws with the dealer drawing up to 18
DealerDraws_Below19(d) == d.handvalue < 19

\* the condition under which the dealer's loop draws
DealerDraws(d) == d.handvalue < 17 \/ (d.handvalue = 17 /\ d.soft # 0)

\* main, dealer's loop, branch: the dealer is busted
DealerBusted ==
    /\ pc = "dealer"
    /\ hands["dealer"].busted # 0
    /\ msg' = "Dealer BUSTED!"
    /\ pc' = "results"
    /\ UNCHANGED ussVars
    /\ UNCHANGED timerVars
    /\ UNCHANGED <<rankG, suitG, indexG, hands, round, pNow, askSplit, tpc,
                   shufI, seed, report>>

\* main, dealer's loop, branch: the dealer draws
DealerHits ==
    /\ pc = "dealer"
    /\ hands["dealer"].busted = 0
    /\ DealerDraws(hands["dealer"])
    /\ LET st == dealCard([Cur EXCEPT !.msg = "Dealer hits!"], "dealer") IN
         /\ hands' = st.hands
         /\ indexG' = st.indexG
         /\ msg' = st.msg
    /\ UNCHANGED ussVars
    /\ UNCHANGED timerVars
    /\ UNCHANGED <<rankG, suitG, pc, round, pNow, askSplit, tpc, shufI, seed,
                   report>>

\* main, dealer's loop, branch: the dealer stays
DealerStays ==
    /\ pc = "dealer"
    /\ hands["dealer"].busted = 0
    /\ ~DealerDraws(hands["dealer"])
    /\ msg' = "Dealer stays with"
    /\ pc' = "results"
    /\ UNCHANGED ussVars
    /\ UNCHANGED timerVars
    /\ UNCHANGED <<rankG, suitG, indexG, hands, round, pNow, askSplit, tpc,
                   shufI, seed, report>>

\* outcomeText with the comparison of the third test turned round
outcomeText_Reversed(p, d) ==
    IF p.busted # 0 THEN "LOST"
    ELSE IF p.handvalue = d.handvalue THEN "PUSHED"
    ELSE IF p.handvalue > d.handvalue /\ d.busted = 0 THEN "LOST"
    ELSE IF p.handvalue < d.handvalue \/ d.busted # 0 THEN "WON"
    ELSE "ERROR in dispResults()"

\* outcomeText whose last test leaves out the dealer's busted flag
outcomeText_NoDealerBust(p, d) ==
    IF p.busted # 0 THEN "LOST"
    ELSE IF p.handvalue = d.handvalue THEN "PUSHED"
    ELSE IF p.handvalue < d.handvalue /\ d.busted = 0 THEN "LOST"
    ELSE IF p.handvalue > d.handvalue THEN "WON"
    ELSE "ERROR in dispResults()"

\* dispResults: the cascade that picks the text sent for hand p against the
\* dealer's hand d
outcomeText(p, d) ==
    IF p.busted # 0 THEN "LOST"
    ELSE IF p.handvalue = d.handvalue THEN "PUSHED"
    ELSE IF p.handvalue < d.handvalue /\ d.busted = 0 THEN "LOST"
    ELSE IF p.handvalue > d.handvalue \/ d.busted # 0 THEN "WON"
    ELSE "ERROR in dispResults()"

\* dispResults, then the round loop's increment
DispResults ==
    /\ pc = "results"
    /\ hands' = [hands EXCEPT !["dealer"].isFaceDown[0] = 0]
    /\ report' = [h \in PlayerHands |->
                    IF h \in {"p1b", "p2b", "p3b", "p4b"} /\ hands[h].empty # 0
                    THEN "none"
                    ELSE outcomeText(hands[h], hands["dealer"])]
    /\ msg' = "results"
    /\ round' = round + 1
    /\ pc' = IF inRoundLoop(round + 1) THEN "newRound" ELSE "done"
    /\ UNCHANGED ussVars
    /\ UNCHANGED timerVars
    /\ UNCHANGED <<rankG, suitG, indexG, pNow, askSplit, tpc, shufI, seed>>

Next ==
    \/ NewRound
    \/ ShuffleStep
    \/ InitialDeal
    \/ TurnSplitOffer
    \/ TurnBustedA
    \/ TurnTapjackA
    \/ TurnHitA
    \/ TurnStayA
    \/ TurnBustedB
    \/ TurnTapjackB
    \/ TurnHitB
    \/ TurnStayB
    \/ DealerBusted
    \/ DealerHits
    \/ DealerStays
    \/ DispResults

Spec == Init /\ [][Next]_vars

\* ------------------------------------------------------------------------
\* The end of the round loop (SpecLastRounds): main about to start the
\* first of its last MaxRound rounds, the deck in the order of initDeck;
\* newRound empties the hands whatever the round before left in them
\* ------------------------------------------------------------------------
InitLastRounds ==
    /\ InitUSSVars
    /\ InitTimerVars
    /\ rankG = initDeck.rank
    /\ suitG = initDeck.suit
    /\ indexG = 0
    /\ hands = [h \in HandNames |-> emptyHand]
    /\ pc = "newRound"
    /\ round = LastRound - MaxRound + 1
    /\ pNow = 0
    /\ askSplit = 0
    /\ tpc = "-"
    /\ shufI = 0
    /\ seed = 0
    /\ msg = ""
    /\ report = NoReport

SpecLastRounds == InitLastRounds /\ [][Next]_vars

\* the round engine with the program running on: main's loops have no wait
\* but userInput, so whenever a step of the engine is possible and every
\* userInput call returns, a step is taken
SpecLive == Init /\ [][Next]_vars /\ WF_vars(Next)

\* ------------------------------------------------------------------------
\* dealCard, split and newRound called directly (SpecCalls): the first
\* MaxDeal deck positions carry any ranks; the calls are made on seat 1's
\* hands, after any number of calls that fill the other seats' first hands
\* and the dealer's hand
\* ------------------------------------------------------------------------
InitCalls ==
    /\ InitUSSVars
    /\ InitTimerVars
    /\ \E f \in [0..(MaxDeal - 1) -> 1..MAXSUIT] :
         rankG = [i \in 0..(SINGLEDECK - 1) |->
                    IF i < MaxDeal THEN f[i] ELSE initRank(i)]
    /\ suitG = initDeck.suit
    /\ indexG = 0
    /\ hands = [h \in HandNames |-> emptyHand]
    /\ pc = "calls"
    /\ round = 1
    /\ pNow = P1
    /\ askSplit = 1
    /\ tpc = "-"
    /\ shufI = 0
    /\ seed = 0
    /\ msg = ""
    /\ report = NoReport

\* the hand the call number i (from 0) of the earlier calls goes to
OtherHand(i) == <<"p2a", "p3a", "p4a", "dealer">>[(i % 4) + 1]

\* dealCard on the hands of seats 2, 3, 4 and the dealer in turn, on the
\* deck of initDeck, before seat 1 is dealt to and until the four are full
CallDealOther ==
    /\ pc = "calls"
    /\ rankG = initDeck.rank
    /\ hands["p1a"].empty # 0
    /\ indexG < 4 * MAXHAND
    /\ LET st == dealCard([Cur EXCEPT !.msg = "dealCard"],
                          OtherHand(indexG)) IN
         /\ hands' = st.hands
         /\ indexG' = st.indexG
         /\ msg' = st.msg
    /\ UNCHANGED ussVars
    /\ UNCHANGED timerVars
    /\ UNCHANGED <<rankG, suitG, pc, round, pNow, askSplit, tpc, shufI, seed,
                   report>>

\* dealCard(&h) on seat 1's first hand, on its second hand once that holds
\* cards, or on a full hand; followed until seat 1 holds MaxDeal + 2 cards,
\* and on an exhausted deck
CallDealCard ==
    /\ pc = "calls"
    /\ \/ hands["p1a"].handsize + hands["p1b"].handsize < MaxDeal + 2
       \/ indexG >= SINGLEDECK
    /\ \E h \in HandNames :
         /\ \/ h = "p1a"
            \/ h = "p1b" /\ hands[h].empty = 0
            \/ hands[h].handsize >= MAXHAND
         /\ LET st == dealCard([Cur EXCEPT !.msg = "dealCard"], h) IN
              /\ hands' = st.hands
              /\ indexG' = st.indexG
              /\ msg' = st.msg
    /\ UNCHANGED ussVars
    /\ UNCHANGED timerVars
    /\ UNCHANGED <<rankG, suitG, pc, round, pNow, askSplit, tpc, shufI, seed,
                   report>>

\* newRound() on an exhausted deck: every hand emptied, shuffleDeck entered
CallNewRound ==
    /\ pc = "calls"
    /\ indexG >= SINGLEDECK
    /\ seed' \in 1..NumSeeds
    /\ shufI' = 0
    /\ indexG' = 0
    /\ hands' = [h \in HandNames |-> emptyHand]
    /\ msg' = "newRound"
    /\ askSplit' = 1
    /\ pc' = "shuffle"
    /\ UNCHANGED ussVars
    /\ UNCHANGED timerVars
    /\ UNCHANGED <<rankG, suitG, round, pNow, tpc, report>>

\* newRound() returns to its caller
CallsResume ==
    /\ pc = "deal"
    /\ pc' = "calls"
    /\ UNCHANGED ussVars
    /\ UNCHANGED timerVars
    /\ UNCHANGED <<rankG, suitG, indexG, hands, round, pNow, askSplit, tpc,
                   shufI, seed, msg, report>>

\* split(P1) on a two-card first hand, whatever its ranks and whether or not
\* the hand was split before; askSplit records that the split question was
\* used up
CallSplit ==
    /\ pc = "calls"
    /\ indexG < MaxDeal + 2
    /\ hands["p1a"].handsize = 2
    /\ LET st == split(Cur, P1) IN
         /\ hands' = st.hands
         /\ indexG' = st.indexG
         /\ msg' = st.msg
    /\ askSplit' = 0
    /\ UNCHANGED ussVars
    /\ UNCHANGED timerVars
    /\ UNCHANGED <<rankG, suitG, pc, round, pNow, tpc, shufI, seed, report>>

NextCalls ==
    \/ CallDealOther
    \/ CallDealCard
    \/ CallSplit
    \/ CallNewRound
    \/ ShuffleStep
    \/ CallsResume

SpecCalls == InitCalls /\ [][NextCalls]_vars

\* ------------------------------------------------------------------------
\* The gesture classifier (SpecUSS): userInput and USS_move
\* ------------------------------------------------------------------------
\* the distances USS_distance returns: the four zone borders, a point inside
\* each zone, and readings below and above every zone
Distances == {0, DIST_HIT, 19, DIST_HIT + WIDTH, DIST_STAY, 46,
              DIST_STAY + WIDTH, 400}

\* inHitZone with its two borders inside the zone
inHitZone_Closed(d) == d >= DIST_HIT /\ d <= DIST_HIT + WIDTH

\* USS_move: the two zone tests
inHitZone(d) == d > DIST_HIT /\ d < DIST_HIT + WIDTH
inStayZone(d) == d > DIST_STAY /\ d < DIST_STAY + WIDTH

\* the action whose counter a sample at distance d increments
zoneOf(d) == IF inHitZone(d) THEN HIT
             ELSE IF inStayZone(d) THEN STAY
             ELSE NOACTION

InitUSS ==
    /\ InitUSSVars
    /\ InitTimerVars
    /\ rankG = initDeck.rank
    /\ suitG = initDeck.suit
    /\ indexG = 0
    /\ hands = [h \in HandNames |-> emptyHand]
    /\ pc = "input"
    /\ round = 1
    /\ pNow = P1
    /\ askSplit = 1
    /\ tpc = "-"
    /\ shufI = 0
    /\ seed = 0
    /\ msg = ""
    /\ report = NoReport

\* userInput is called (by playTurn)
CallUserInput ==
    /\ upc = "idle"
    /\ upc' = "clear"
    /\ mpc' = "entry"
    /\ cls' = <<>>
    /\ UNCHANGED <<countS, countH, countN, distance, moveRet, inputRet,
                   sameZone>>
    /\ UNCHANGED engineVars
    /\ UNCHANGED timerVars

\* USS_move is entered: the counters start at 0 and distance is read once,
\* before the loop
MoveEntry ==
    /\ upc \in {"clear", "commit"}
    /\ mpc = "entry"
    /\ Len(cls) < MaxMoves
    /\ countS' = 0
    /\ countH' = 0
    /\ countN' = 0
    /\ \E d \in Distances :
         /\ distance' = d
         /\ sameZone' = IF sameZone > 0 /\ zoneOf(d) = zoneOf(distance)
                        THEN (IF sameZone <= THRESHOLD THEN sameZone + 1
                              ELSE sameZone)
                        ELSE 1
    /\ mpc' = "loop"
    /\ UNCHANGED <<upc, moveRet, inputRet, cls>>
    /\ UNCHANGED engineVars
    /\ UNCHANGED timerVars

\* overThreshold with >= for >
overThreshold_AtThreshold(count) == count >= THRESHOLD

\* USS_move: the test that makes a counter's action the return value
overThreshold(count) == count > THRESHOLD

\* USS_move, one iteration of the loop, branch: test for hit
MoveLoopHit ==
    /\ mpc = "loop"
    /\ inHitZone(distance)
    /\ countS' = 0
    /\ countN' = 0
    /\ countH' = countH + 1
    /\ IF overThreshold(countH + 1)
       THEN /\ moveRet' = HIT
            /\ cls' = Append(cls, HIT)
            /\ mpc' = "ret"
       ELSE UNCHANGED <<moveRet, cls, mpc>>
    /\ UNCHANGED <<upc, distance, inputRet, sameZone>>
    /\ UNCHANGED engineVars
    /\ UNCHANGED timerVars

\* USS_move, one iteration of the loop, branch: test for stay
MoveLoopStay ==
    /\ mpc = "loop"
    /\ ~inHitZone(distance)
    /\ inStayZone(distance)
    /\ countH' = 0
    /\ countN' = 0
    /\ countS' = countS + 1
    /\ IF overThreshold(countS + 1)
       THEN /\ moveRet' = STAY
            /\ cls' = Append(cls, STAY)
            /\ mpc' = "ret"
       ELSE UNCHANGED <<moveRet, cls, mpc>>
    /\ UNCHANGED <<upc, distance, inputRet, sameZone>>
    /\ UNCHANGED engineVars
    /\ UNCHANGED timerVars

\* USS_move, one iteration of the loop, branch: neither zone
MoveLoopNone ==
    /\ mpc = "loop"
    /\ ~inHitZone(distance)
    /\ ~inStayZone(distance)
    /\ countH' = 0
    /\ countS' = 0
    /\ countN' = countN + 1
    /\ IF overThreshold(countN + 1)
       THEN /\ moveRet' = NOACTION
            /\ cls' = Append(cls, NOACTION)
            /\ mpc' = "ret"
       ELSE UNCHANGED <<moveRet, cls, mpc>>
    /\ UNCHANGED <<upc, distance, inputRet, sameZone>>
    /\ UNCHANGED engineVars
    /\ UNCHANGED timerVars

\* InputClear that leaves the first loop on any return value
InputClear_NoWait ==
    /\ upc = "clear"
    /\ mpc = "ret"
    /\ upc' = "commit"
    /\ mpc' = "entry"
    /\ UNCHANGED <<countS, countH, countN, distance, moveRet, inputRet, cls,
                   sameZone>>
    /\ UNCHANGED engineVars
    /\ UNCHANGED timerVars

\* userInput, first loop: while (USS_move() != NOACTION);
InputClear ==
    /\ upc = "clear"
    /\ mpc = "ret"
    /\ upc' = IF moveRet # NOACTION THEN "clear" ELSE "commit"
    /\ mpc' = "entry"
    /\ UNCHANGED <<countS, countH, countN, distance, moveRet, inputRet, cls,
                   sameZone>>
    /\ UNCHANGED engineVars
    /\ UNCHANGED timerVars

\* InputCommit that returns whatever USS_move returned
InputCommit_ReturnsAny ==
    /\ upc = "commit"
    /\ mpc = "ret"
    /\ inputRet' = moveRet
    /\ upc' = "idle"
    /\ mpc' = "entry"
    /\ UNCHANGED <<countS, countH, countN, distance, moveRet, cls, sameZone>>
    /\ UNCHANGED engineVars
    /\ UNCHANGED timerVars

\* userInput, second loop: the switch on USS_move()
InputCommit ==
    /\ upc = "commit"
    /\ mpc = "ret"
    /\ IF moveRet = STAY
       THEN inputRet' = STAY /\ upc' = "idle"
       ELSE IF moveRet = HIT
       THEN inputRet' = HIT /\ upc' = "idle"
       ELSE UNCHANGED <<inputRet, upc>>
    /\ mpc' = "entry"
    /\ UNCHANGED <<countS, countH, countN, distance, moveRet, cls, sameZone>>
    /\ UNCHANGED engineVars
    /\ UNCHANGED timerVars

NextUSS ==
    \/ CallUserInput
    \/ MoveEntry
    \/ MoveLoopHit
    \/ MoveLoopStay
    \/ MoveLoopNone
    \/ InputClear
    \/ InputCommit

SpecUSS == InitUSS /\ [][NextUSS]_vars

\* ------------------------------------------------------------------------
\* The echo measurement (SpecTimer): USS_distance and ISR(TIMER1_OVF_vect).
\* timerOverflow is a two-byte int that is not volatile, on a processor that
\* moves one byte per instruction; USS_distance leaves interrupts enabled.
\* The store and the load of timerOverflow are therefore two byte accesses
\* each, in either order, and the load may also be replaced by the value
\* the function stored before (the compiler sees no write in between).
\* ------------------------------------------------------------------------
LowByte(n) == n % 256
HighByte(n) == n \div 256

InitTimer ==
    /\ InitUSSVars
    /\ InitTimerVars
    /\ rankG = initDeck.rank
    /\ suitG = initDeck.suit
    /\ indexG = 0
    /\ hands = [h \in HandNames |-> emptyHand]
    /\ pc = "distance"
    /\ round = 1
    /\ pNow = P1
    /\ askSplit = 1
    /\ tpc = "-"
    /\ shufI = 0
    /\ seed = 0
    /\ msg = ""
    /\ report = NoReport

\* USS_distance is called: the timer is started, the trigger pulse sent, and
\* the function waits for the rising edge of the echo
DistanceStart ==
    /\ dpc = "idle"
    /\ dpc' = "rising"
    /\ icf' = 0
    /\ trueOvf' = 0
    /\ UNCHANGED <<timerOverflow, part, ovfUsed>>
    /\ UNCHANGED engineVars
    /\ UNCHANGED ussVars

\* the rising edge was seen: TCNT1 = 0, capture set to the falling edge, the
\* flags cleared
RisingEdge ==
    /\ dpc = "rising"
    /\ dpc' = "clear"
    /\ icf' = 0
    /\ UNCHANGED <<timerOverflow, part, ovfUsed, trueOvf>>
    /\ UNCHANGED engineVars
    /\ UNCHANGED ussVars

\* timerOverflow = 0, the first byte stored
ClearFirstByte ==
    /\ dpc = "clear"
    /\ \/ /\ timerOverflow' = 256 * HighByte(timerOverflow)
          /\ dpc' = "clearHigh"
       \/ /\ timerOverflow' = LowByte(timerOverflow)
          /\ dpc' = "clearLow"
    /\ UNCHANGED <<icf, part, ovfUsed, trueOvf>>
    /\ UNCHANGED engineVars
    /\ UNCHANGED ussVars

\* timerOverflow = 0, the second byte stored; the wait for the falling edge
\* begins
ClearSecondByte ==
    /\ dpc \in {"clearHigh", "clearLow"}
    /\ timerOverflow' = IF dpc = "clearHigh" THEN LowByte(timerOverflow)
                        ELSE 256 * HighByte(timerOverflow)
    /\ dpc' = "falling"
    /\ trueOvf' = 0
    /\ UNCHANGED <<icf, part, ovfUsed>>
    /\ UNCHANGED engineVars
    /\ UNCHANGED ussVars

\* the hardware captures the falling edge of the echo: ICR1 latched, ICF1 set
FallingEdge ==
    /\ dpc = "falling"
    /\ icf = 0
    /\ icf' = 1
    /\ UNCHANGED <<timerOverflow, dpc, part, ovfUsed, trueOvf>>
    /\ UNCHANGED engineVars
    /\ UNCHANGED ussVars

\* the wait loop sees ICF1 set
WaitFalling ==
    /\ dpc = "falling"
    /\ icf = 1
    /\ dpc' = "read"
    /\ UNCHANGED <<timerOverflow, icf, part, ovfUsed, trueOvf>>
    /\ UNCHANGED engineVars
    /\ UNCHANGED ussVars

\* count = ICR1 + (65535 * timerOverflow): the first byte of timerOverflow
\* loaded, or the value stored before the wait used instead of a load
ReadFirstByte ==
    /\ dpc = "read"
    /\ \/ /\ part' = LowByte(timerOverflow)
          /\ dpc' = "readHigh"
          /\ UNCHANGED ovfUsed
       \/ /\ part' = HighByte(timerOverflow)
          /\ dpc' = "readLow"
          /\ UNCHANGED ovfUsed
       \/ /\ ovfUsed' = 0
          /\ dpc' = "done"
          /\ UNCHANGED part
    /\ UNCHANGED <<timerOverflow, icf, trueOvf>>
    /\ UNCHANGED engineVars
    /\ UNCHANGED ussVars

\* the second byte of timerOverflow loaded; count is computed
ReadSecondByte ==
    /\ dpc \in {"readHigh", "readLow"}
    /\ ovfUsed' = IF dpc = "readHigh"
                  THEN part + 256 * HighByte(timerOverflow)
                  ELSE LowByte(timerOverflow) + 256 * part
    /\ dpc' = "done"
    /\ UNCHANGED <<timerOverflow, icf, part, trueOvf>>
    /\ UNCHANGED engineVars
    /\ UNCHANGED ussVars

\* the timer is stopped and USS_distance returns
DistanceReturn ==
    /\ dpc = "done"
    /\ dpc' = "idle"
    /\ UNCHANGED <<timerOverflow, icf, part, ovfUsed, trueOvf>>
    /\ UNCHANGED engineVars
    /\ UNCHANGED ussVars

\* ISR(TIMER1_OVF_vect): the timer, running since USS_distance started it,
\* overflows and the handler runs between two instructions of USS_distance
TimerOverflowISR ==
    /\ dpc # "idle"
    /\ timerOverflow < MaxOverflows
    /\ timerOverflow' = timerOverflow + 1
    /\ trueOvf' = IF dpc = "falling" /\ icf = 0 THEN trueOvf + 1 ELSE trueOvf
    /\ UNCHANGED <<dpc, icf, part, ovfUsed>>
    /\ UNCHANGED engineVars
    /\ UNCHANGED ussVars

NextTimer ==
    \/ DistanceStart
    \/ RisingEdge
    \/ ClearFirstByte
    \/ ClearSecondByte
    \/ FallingEdge
    \/ WaitFalling
    \/ ReadFirstByte
    \/ ReadSecondByte
    \/ DistanceReturn
    \/ TimerOverflowISR

SpecTimer == InitTimer /\ [][NextTimer]_vars

\* ------------------------------------------------------------------------
\* The outcome display on its own: dispUpper and dispResults over every
\* combination of a seat's and the dealer's value and busted flag
\* ------------------------------------------------------------------------
\* the text selectPlayer sends in its DEALER case, where it sets no pointer
selectPlayerError == "ERROR in selectPlayer()"

\* dispUpper(ID): the values of i its loop passes to selectPlayer
dispUpperIDs(ID) == 1..(IF ID = DEALER THEN 4 ELSE ID)

\* the first seat holds a hand (and, when secondEmpty is 0, a second hand) of
\* value pv and busted flag pb, the dealer a hand of value dv and flag db
outcomeHands(pv, pb, dv, db, secondEmpty) ==
    [h \in HandNames |->
       IF h = "p1a"
       THEN [emptyHand EXCEPT !.handvalue = pv, !.busted = pb, !.empty = 0]
       ELSE IF h = "p1b"
       THEN [emptyHand EXCEPT !.handvalue = pv, !.busted = pb,
                              !.empty = secondEmpty]
       ELSE IF h = "dealer"
       THEN [emptyHand EXCEPT !.handvalue = dv, !.busted = db, !.empty = 0]
       ELSE emptyHand]

InitOutcomes ==
    /\ InitUSSVars
    /\ InitTimerVars
    /\ rankG = initDeck.rank
    /\ suitG = initDeck.suit
    /\ indexG = 0
    /\ \E pv \in 0..MaxValue, dv \in 0..MaxValue :
         \E pb \in {0, 1}, db \in {0, 1}, secondEmpty \in {0, 1} :
            hands = outcomeHands(pv, pb, dv, db, secondEmpty)
    /\ pc = "results"
    /\ round = 1
    /\ pNow = 0
    /\ askSplit = 0
    /\ tpc = "-"
    /\ shufI = 0
    /\ seed = 0
    /\ msg = ""
    /\ report = NoReport

\* dispUpper(ID) as playTurn, split, main and dispResults call it: the
\* heading, then selectPlayer for each seat shown
OutcomeDispUpper ==
    /\ pc = "results"
    /\ \E ID \in {DEALER} \cup (P1..P4) :
         msg' = IF DEALER \in dispUpperIDs(ID) THEN selectPlayerError
                ELSE IF ID = DEALER THEN "DEALER'S TURN."
                ELSE "PLAYER'S TURN"
    /\ UNCHANGED ussVars
    /\ UNCHANGED timerVars
    /\ UNCHANGED <<rankG, suitG, indexG, hands, pc, round, pNow, askSplit, tpc,
                   shufI, seed, report>>

NextOutcomes ==
    \/ OutcomeDispUpper
    \/ DispResults

SpecOutcomes == InitOutcomes /\ [][NextOutcomes]_vars

\* ------------------------------------------------------------------------
\* Properties
\* ------------------------------------------------------------------------
\* hand p's first k cards scored in order from an empty hand by dealCard's
\* scoring rule
ReplayPrefix(p, k) ==
    LET rep[n \in 0..k] ==
            IF n = 0 THEN emptyHand ELSE scoreCard(rep[n - 1], p.rank[n - 1])
    IN rep[k]

\* hand p's cards scored in order from an empty hand
Replayed(p) == ReplayPrefix(p, p.handsize)

\* the blackjack score of one card: 11 for an Ace, 10 for ranks 10..13, the
\* rank for 2..9
Contribution(rank) == IF rank = 1 THEN 11
                      ELSE IF rank >= 10 THEN 10
                      ELSE rank

\* C1: for every sequence of dealCard calls on a hand that starts empty
\* (any cards in any order), after each call busted is set if and only if
\* handvalue > 21.  The calls are made on p1a; askSplit # 0 says that no
\* split call was made.
C1_BustedIffOver21 ==
    (pc = "calls" /\ askSplit # 0)
        => ((hands["p1a"].busted # 0) <=> (hands["p1a"].handvalue > 21))

\* C2: in every state of a round, for each of the nine hands, handvalue and
\* soft are the values obtained by scoring the hand's cards in order from an
\* empty hand with dealCard's scoring rule, also after a split.
C2_ValueReplaysCards ==
    \A h \in HandNames :
        /\ hands[h].handvalue = Replayed(hands[h]).handvalue
        /\ hands[h].soft = Replayed(hands[h]).soft

\* C3: in the results dispResults sent, a busted hand is LOST whatever the
\* dealer's hand is; a hand that is not busted, against a dealer that is not
\* busted, is WON iff its value is above the dealer's, PUSHED iff equal and
\* LOST iff below; every first hand and every non-empty second hand has a
\* result.
C3_OutcomeResolution ==
    (msg = "results") =>
        \A h \in PlayerHands :
            LET p == hands[h]
                d == hands["dealer"]
            IN /\ (report[h] = "none") <=>
                      (h \in {"p1b", "p2b", "p3b", "p4b"} /\ p.empty # 0)
               /\ report[h] # "none" =>
                    /\ p.busted # 0 => report[h] = "LOST"
                    /\ (p.busted = 0 /\ d.busted = 0) =>
                         /\ (report[h] = "WON") <=> (p.handvalue > d.handvalue)
                         /\ (report[h] = "PUSHED") <=>
                                (p.handvalue = d.handvalue)
                         /\ (report[h] = "LOST") <=> (p.handvalue < d.handvalue)

\* C3 witness: results in which a busted hand lost against a busted dealer
\* while a hand that did not bust won
C3_Witness_BustedLostToBustedDealer ==
    /\ msg = "results"
    /\ hands["dealer"].busted # 0
    /\ \E h \in PlayerHands : hands[h].busted # 0 /\ report[h] = "LOST"
    /\ \E h \in PlayerHands : hands[h].busted = 0 /\ report[h] = "WON"

\* C4: when the dealer's loop stops, the dealer is busted, or has a value of
\* at least 17 with no Ace counted as 11, or a value of at least 18; the
\* dealer never stops on a 17 with an Ace counted as 11 (it draws a card
\* then) and never draws on 18 or more or on a 17 without such an Ace.
C4_DealerPolicy ==
    [][pc = "dealer" =>
         LET d == hands["dealer"] IN
         /\ pc' = "results" =>
              /\ \/ d.busted # 0
                 \/ (d.handvalue >= 17 /\ d.soft = 0)
                 \/ d.handvalue >= 18
              /\ ~(d.busted = 0 /\ d.handvalue = 17 /\ d.soft # 0)
         /\ hands'["dealer"].handsize # d.handsize =>
              /\ d.busted = 0
              /\ d.handvalue < 18
              /\ ~(d.handvalue = 17 /\ d.soft = 0)
         /\ (d.busted = 0 /\ d.handvalue = 17 /\ d.soft # 0) =>
              hands'["dealer"].handsize = d.handsize + 1
      ]_vars

\* C4 witness: the dealer's loop has stopped and the dealer's hand went
\* through a 17 with an Ace counted as 11, on which it drew
C4_Witness_DrewOnSoft17 ==
    /\ pc = "results"
    /\ \E k \in 2..(MAXHAND - 1) :
         /\ k < hands["dealer"].handsize
         /\ ReplayPrefix(hands["dealer"], k).handvalue = 17
         /\ ReplayPrefix(hands["dealer"], k).soft # 0

\* C5: USS_move returns an action only after more than THRESHOLD sensor
\* samples in a row fell in that action's zone (so a stream whose zone
\* changes on every sample never makes it return).
C5_CommitNeedsSustainedSamples ==
    mpc = "ret" => sameZone > THRESHOLD

\* C6: once USS_move has returned NOACTION inside userInput, samples in the
\* HIT zone make userInput return HIT, and samples in the STAY zone STAY:
\* USS_move returns the action when the matching counter first exceeds
\* THRESHOLD (not earlier, and the counter never passes THRESHOLD + 1), and
\* userInput returns it at once; this takes no more than THRESHOLD + 1
\* samples.
C6_SustainedZoneCommits ==
    [][upc = "commit" =>
         /\ (mpc = "loop" /\ inHitZone(distance)) =>
              /\ countH <= THRESHOLD
              /\ sameZone <= THRESHOLD + 1
              /\ countH' = countH + 1
              /\ (mpc' = "ret") <=> (countH' = THRESHOLD + 1)
              /\ mpc' = "ret" => moveRet' = HIT
         /\ (mpc = "loop" /\ inStayZone(distance)) =>
              /\ countS <= THRESHOLD
              /\ sameZone <= THRESHOLD + 1
              /\ countS' = countS + 1
              /\ (mpc' = "ret") <=> (countS' = THRESHOLD + 1)
              /\ mpc' = "ret" => moveRet' = STAY
         /\ (mpc = "ret" /\ inHitZone(distance)) =>
              (upc' = "idle" /\ inputRet' = HIT)
         /\ (mpc = "ret" /\ inStayZone(distance)) =>
              (upc' = "idle" /\ inputRet' = STAY)
      ]_vars

\* C6 witness: userInput has returned HIT on the first sample after the
\* NOACTION, the HIT counter standing at THRESHOLD + 1
C6_Witness_HitAfterClear ==
    /\ upc = "idle"
    /\ inputRet = HIT
    /\ cls = <<NOACTION, HIT>>
    /\ countH = THRESHOLD + 1

\* C7: userInput returns only after USS_move has returned NOACTION at least
\* once in that call and HIT or STAY afterwards: what it returns is the first
\* HIT or STAY after the first NOACTION, a HIT or STAY before the first
\* NOACTION is dropped, and nothing is accepted on the call's first
\* classification.
C7_ClearThenCommit ==
    (upc = "idle" /\ inputRet # ERROR) =>
        /\ Len(cls) >= 2
        /\ cls[Len(cls)] \in {HIT, STAY}
        /\ inputRet = cls[Len(cls)]
        /\ \E k \in 1..(Len(cls) - 1) :
             /\ cls[k] = NOACTION
             /\ \A m \in 1..(k - 1) : cls[m] # NOACTION
             /\ \A m \in (k + 1)..(Len(cls) - 1) : cls[m] = NOACTION

\* C7 witness: a call that dropped a HIT made before the area was clear and
\* returned the STAY that followed the NOACTION
C7_Witness_LingeringHitDropped ==
    /\ upc = "idle"
    /\ inputRet = STAY
    /\ cls = <<HIT, NOACTION, STAY>>

SplitOnlyOnFreshPair ==
    [][\A ID \in P1..P4 :
         (hands[SecondaryOf(ID)].empty # 0
              /\ hands'[SecondaryOf(ID)].empty = 0)
           => /\ pc = "turn" /\ tpc = "A" /\ pNow = ID
              /\ askSplit # 0 /\ askSplit' = 0
              /\ hands[PrimaryOf(ID)].handsize = 2
              /\ hands[PrimaryOf(ID)].rank[0] = hands[PrimaryOf(ID)].rank[1]
      ]_vars

\* C9: when split moves the first hand's second card to the second hand,
\* the first hand's value goes down by the card's score and the second
\* hand's value goes up by it, so that before the two new cards are dealt
\* each one-card hand has the value and soft count of its single card (11
\* and 1 for a pair of Aces).  Checked on every pair split is called on.
C9_SplitMovesCardScore ==
    (pc = "calls" /\ askSplit # 0 /\ hands["p1a"].handsize = 2
        /\ hands["p1a"].rank[0] = hands["p1a"].rank[1])
    => LET r == hands["p1a"].rank[1]
           a == splitMove(Cur, P1).hands["p1a"]
           b == splitMove(Cur, P1).hands["p1b"]
       IN /\ r # 1 => /\ a.handvalue =
                            hands["p1a"].handvalue - Contribution(r)
                      /\ b.handvalue =
                            hands["p1b"].handvalue + Contribution(r)
          /\ a.handsize = 1 /\ b.handsize = 1
          /\ a.handvalue = Contribution(a.rank[0])
          /\ b.handvalue = Contribution(b.rank[0])
          /\ a.soft = (IF r = 1 THEN 1 ELSE 0)
          /\ b.soft = (IF r = 1 THEN 1 ELSE 0)

\* the deck holds each of the 52 (rank, suit) pairs at exactly one position
IsStandardDeck ==
    /\ DOMAIN rankG = 0..(SINGLEDECK - 1)
    /\ DOMAIN suitG = 0..(SINGLEDECK - 1)
    /\ \A r \in 1..MAXSUIT : \A su \in Suits :
         Cardinality({i \in 0..(SINGLEDECK - 1) :
                         rankG[i] = r /\ suitG[i] = su}) = 1

\* C10: after initDeck the deck holds exactly the 52 distinct (rank, suit)
\* pairs; during and after every shuffle of every round it is still a
\* permutation of these pairs (rank and suit of a card stay together), also
\* when an iteration swaps a position with itself; indexG is 0 right after
\* each shuffle.
C10_DeckIsPermutation ==
    /\ IsStandardDeck
    /\ pc \in {"shuffle", "deal"} => indexG = 0

\* C10 witness: the second round's shuffle has just swapped a position with
\* itself, on a deck the first round's shuffle reordered
C10_Witness_SecondShuffleSelfSwap ==
    /\ pc = "shuffle"
    /\ round = 2
    /\ shufI > 0
    /\ randIndex(seed, shufI - 1) = shufI - 1
    /\ rankG # initDeck.rank

\* the text dealCard sends when it cannot deal
CannotDeal == "ERROR: Cannot Deal Card!"

\* C11: the deck cursor stays within 0..52; a call of dealCard that deals
\* moves it forward by exactly 1 and hands out the card at the cursor; it
\* never goes back except to 0 on entry to shuffleDeck; a call of dealCard
\* with the cursor at 52 or beyond sends the error text, hands out no card
\* and leaves the cursor where it is (no wrap to position 0).
C11_CursorDiscipline ==
    [][/\ indexG \in 0..SINGLEDECK
       /\ indexG' \in 0..SINGLEDECK
       /\ indexG' < indexG => (CallNewRound /\ indexG' = 0)
       /\ (CallDealCard \/ CallDealOther) =>
            IF indexG >= SINGLEDECK
            THEN /\ msg' = CannotDeal
                 /\ hands' = hands
                 /\ indexG' = indexG
            ELSE IF msg' = CannotDeal
            THEN hands' = hands /\ indexG' = indexG
            ELSE /\ indexG' = indexG + 1
                 /\ \E h \in HandNames :
                      /\ hands'[h].handsize = hands[h].handsize + 1
                      /\ hands'[h].rank[hands[h].handsize] = rankG[indexG]
                      /\ \A g \in HandNames \ {h} : hands'[g] = hands[g]
      ]_vars

\* C11 witness: all 52 cards are out and a further dealCard call has failed
C11_Witness_DrawOnExhaustedDeck ==
    /\ pc = "calls"
    /\ indexG = SINGLEDECK
    /\ msg = CannotDeal
    /\ hands["p1a"].handsize \in 1..(MAXHAND - 1)

\* C12: dealCard called on an exhausted deck, or for a hand that holds 12
\* cards, sends the error text and returns with every hand and the deck
\* cursor as they were.
C12_FailedDealChangesNothing ==
    pc = "calls" =>
      \A h \in HandNames :
        (indexG >= SINGLEDECK \/ hands[h].handsize >= MAXHAND)
          => /\ dealCard(Cur, h).hands = hands
             /\ dealCard(Cur, h).indexG = indexG
             /\ dealCard(Cur, h).msg = CannotDeal

\* C12 witness: a dealCard call for a full hand has failed while the deck
\* still had cards
C12_Witness_FullHandRefused ==
    /\ pc = "calls"
    /\ indexG < SINGLEDECK
    /\ msg = CannotDeal
    /\ \E h \in HandNames : hands[h].handsize = MAXHAND

\* the hand playTurn is working on
CurHand == IF tpc = "A" THEN PrimaryOf(pNow) ELSE SecondaryOf(pNow)

SeatOf(h) == CHOOSE ID \in P1..P4 : h \in {PrimaryOf(ID), SecondaryOf(ID)}

\* the turn of player hand h is over in the round being played
TurnOver(h) ==
    \/ pc \in {"dealer", "results"}
    \/ /\ pc = "turn"
       /\ \/ pNow > SeatOf(h)
          \/ pNow = SeatOf(h) /\ tpc = "B" /\ h = PrimaryOf(pNow)

\* C13: in playTurn, once the split question is out of the way, a busted
\* hand ends its turn with "You BUSTED!", a hand worth 21 ends it with "You
\* got TAPJACK!", and any other hand either takes HIT, which deals exactly
\* the card at the deck cursor to that hand and asks again about the same
\* hand, or takes STAY, which ends the turn with "You stayed!" and deals
\* nothing; a hand whose turn is over does not change for the rest of the
\* round.
C13_HitStayCycle ==
    [][/\ (pc = "turn"
            /\ ~(tpc = "A" /\ canSplit(hands[CurHand], askSplit)))
         => \A h \in {CurHand} :
            LET p == hands[h]
                ends == /\ TurnOver(h)'
                        /\ hands'[h] = p
                        /\ indexG' = indexG
            IN IF p.busted # 0 THEN msg' = "You BUSTED!" /\ ends
               ELSE IF p.handvalue = 21
               THEN msg' = "You got TAPJACK!" /\ ends
               ELSE \/ msg' = "You stayed!" /\ ends
                    \/ /\ msg' = "You hit!"
                       /\ hands'[h].handsize = p.handsize + 1
                       /\ hands'[h].rank[p.handsize] = rankG[indexG]
                       /\ indexG' = indexG + 1
                       /\ \A g \in HandNames \ {h} : hands'[g] = hands[g]
                       /\ pc' = pc /\ pNow' = pNow /\ tpc' = tpc
       /\ \A h \in PlayerHands :
            TurnOver(h) => /\ hands'[h] = hands[h]
                           /\ TurnOver(h)' \/ pc' \in {"newRound", "done"}
      ]_vars

\* C13 witness: a HIT has just taken a hard two-card hand over 21
C13_Witness_HitBusted ==
    /\ pc = "turn"
    /\ msg = "You hit!"
    /\ hands[CurHand].handsize = 3
    /\ hands[CurHand].soft = 0
    /\ hands[CurHand].busted # 0

\* C14: once a seat has split, its second hand stays as the split left it
\* for as long as the first hand is being played, and the second loop is
\* entered only when the first hand has ended busted, at 21 or on STAY; a
\* seat that did not split never enters the second loop and its second hand
\* stays empty; a second hand changes only in its own seat's turn.
C14_SecondHandWaits ==
    [][/\ \A ID \in P1..P4 :
            LET sec == SecondaryOf(ID) IN
            (hands'[sec] # hands[sec] /\ pc # "newRound")
              => /\ pc = "turn" /\ pNow = ID
                 /\ \/ tpc = "B"
                    \/ hands[sec].empty # 0 /\ msg' = "You split!"
       /\ (pc = "turn" /\ tpc = "A" /\ pc' = "turn" /\ tpc' = "B")
            => /\ pNow' = pNow
               /\ hands[SecondaryOf(pNow)].empty = 0
               /\ hands' = hands
               /\ msg' \in {"You BUSTED!", "You got TAPJACK!", "You stayed!"}
       /\ (pc = "turn" /\ tpc = "A"
              /\ ~(pc' = "turn" /\ pNow' = pNow)
              /\ hands[SecondaryOf(pNow)].empty # 0)
            => hands'[SecondaryOf(pNow)] = emptyHand
       /\ (pc = "turn" /\ tpc = "A" /\ ~(pc' = "turn" /\ pNow' = pNow))
            => hands[SecondaryOf(pNow)].empty # 0
      ]_vars

\* C14 witness: the second hand of a split is being played after the first
\* hand took cards of its own
C14_Witness_SecondAfterFirst ==
    /\ pc = "turn"
    /\ tpc = "B"
    /\ hands[PrimaryOf(pNow)].handsize >= 3
    /\ hands[SecondaryOf(pNow)].handsize = 3

\* C15: the split question is put only in the first loop of playTurn, on a
\* first hand of exactly its two starting cards of equal rank, with the
\* second hand empty and askSplit still set, and it clears askSplit; a
\* second hand gets its first card only from the HIT answer to that
\* question; askSplit stays clear for the rest of the seat's turn.
C15_SplitOfferedOnce ==
    [][/\ TurnSplitOffer
            => /\ tpc = "A"
               /\ askSplit # 0 /\ askSplit' = 0
               /\ hands[PrimaryOf(pNow)].handsize = 2
               /\ hands[PrimaryOf(pNow)].rank[0]
                     = hands[PrimaryOf(pNow)].rank[1]
               /\ hands[SecondaryOf(pNow)].empty # 0
               /\ pNow' = pNow
       /\ \A ID \in P1..P4 :
            (hands[SecondaryOf(ID)].empty # 0
                /\ hands'[SecondaryOf(ID)].empty = 0)
              => TurnSplitOffer /\ pNow = ID /\ msg' = "You split!"
       /\ (pc = "turn" /\ askSplit = 0 /\ pc' = "turn" /\ pNow' = pNow)
            => askSplit' = 0
      ]_vars

\* C15 witness: a seat turned the split of its pair down and then took a
\* card; no second question followed
C15_Witness_DeclinedThenHit ==
    /\ pc = "turn"
    /\ tpc = "A"
    /\ askSplit = 0
    /\ hands[SecondaryOf(pNow)].empty # 0
    /\ hands[PrimaryOf(pNow)].rank[0] = hands[PrimaryOf(pNow)].rank[1]
    /\ hands[PrimaryOf(pNow)].handsize = 3

\* C16: the starting deal works on the hands newRound emptied and the
\* cursor shuffleDeck reset, and leaves seat k (1..4) with the cards of deck
\* positions k-1 and k+4, the dealer with those of positions 4 and 9, two
\* cards in each of these hands, every second hand empty and indexG = 10.
C16_InitialDealOrder ==
    [][InitialDeal
         => /\ indexG = 0
            /\ \A h \in HandNames : hands[h] = emptyHand
            /\ indexG' = 10
            /\ \A k \in P1..P4 :
                 /\ hands'[PrimaryOf(k)].handsize = 2
                 /\ hands'[PrimaryOf(k)].rank[0] = rankG[k - 1]
                 /\ hands'[PrimaryOf(k)].suit[0] = suitG[k - 1]
                 /\ hands'[PrimaryOf(k)].rank[1] = rankG[k + 4]
                 /\ hands'[PrimaryOf(k)].suit[1] = suitG[k + 4]
                 /\ hands'[SecondaryOf(k)] = emptyHand
            /\ hands'["dealer"].handsize = 2
            /\ hands'["dealer"].rank[0] = rankG[4]
            /\ hands'["dealer"].suit[0] = suitG[4]
            /\ hands'["dealer"].rank[1] = rankG[9]
            /\ hands'["dealer"].suit[1] = suitG[9]
      ]_vars

\* C16 witness: the second round's starting deal has just been made, on a
\* deck that was shuffled twice
C16_Witness_SecondRoundDealt ==
    /\ pc = "turn"
    /\ round = 2
    /\ pNow = P1
    /\ msg = "PLAYER'S TURN"
    /\ indexG = 10
    /\ rankG # initDeck.rank

\* C17: no card other than the dealer's first has its face-down flag set,
\* and the dealer's first card has it set exactly while the seats take their
\* turns (from the end of the starting deal until playTurn(P4) has
\* returned): it is clear in the dealer's loop and in the results.
C17_OnlyHoleCardHidden ==
    /\ \A h \in HandNames : \A i \in 0..(MAXHAND - 1) :
         hands[h].isFaceDown[i] # 0 => (h = "dealer" /\ i = 0)
    /\ hands["dealer"].isFaceDown[0] # 0 <=> pc = "turn"

\* C17 witness: seat 4 plays the second hand of a split with the dealer's
\* first card still hidden
C17_Witness_HiddenInLastTurn ==
    /\ pc = "turn"
    /\ pNow = P4
    /\ tpc = "B"
    /\ hands["dealer"].isFaceDown[0] = 1
    /\ hands["dealer"].isFaceDown[1] = 0

\* the moves of main from one phase of a round to the next
PhaseMoves ==
    {<<"newRound", "shuffle">>, <<"shuffle", "shuffle">>,
     <<"shuffle", "deal">>, <<"deal", "turn">>, <<"turn", "turn">>,
     <<"turn", "dealer">>, <<"dealer", "dealer">>, <<"dealer", "results">>,
     <<"results", "newRound">>, <<"results", "done">>}

\* C18: a round goes through reset and shuffle, starting deal, the turns of
\* seats 1, 2, 3, 4 in this order, the dealer's loop and the results, in
\* this order; while the seats take their turns the dealer's hand is its two
\* starting cards; outcomes are sent only by dispResults, after the dealer's
\* loop stopped on a busted dealer or on a hand the dealer does not draw to.
C18_PhaseOrder ==
    [][/\ <<pc, pc'>> \in PhaseMoves
       /\ pc = "deal" => pNow' = P1
       /\ (pc = "turn" /\ pc' = "turn") => pNow' \in {pNow, pNow + 1}
       /\ (pc = "turn" /\ pc' = "dealer") => pNow = P4
       /\ pc = "turn"
            => /\ hands["dealer"].handsize = 2
               /\ hands["dealer"].rank[0] = rankG[4]
               /\ hands["dealer"].rank[1] = rankG[9]
               /\ hands'["dealer"].rank = hands["dealer"].rank
               /\ hands'["dealer"].handsize = 2
       /\ pc \in {"shuffle", "deal", "turn", "dealer", "results"}
            => report = NoReport
       /\ (report' # report /\ report' # NoReport)
            => /\ pc = "results"
               /\ \/ hands["dealer"].busted # 0
                  \/ ~DealerDraws(hands["dealer"])
               /\ \A ID \in P1..P4 :
                    report'[PrimaryOf(ID)] \in {"WON", "LOST", "PUSHED"}
      ]_vars

\* C18 witness: the results are about to be shown in a round in which a
\* seat split and the dealer drew
C18_Witness_FullRoundPlayed ==
    /\ pc = "results"
    /\ report = NoReport
    /\ hands["dealer"].handsize >= 3
    /\ \E ID \in P1..P4 : hands[SecondaryOf(ID)].empty = 0

\* C19: the round number starts in 1..999, changes only by dispResults
\* having sent the round's outcomes and then only to the next number, and
\* main leaves the round loop only with round 999 played to its results
\* (round = 1000).
C19_RoundLoop ==
    [][/\ round \in 1..LastRound
       /\ round' # round
            => /\ round' = round + 1
               /\ pc = "results"
               /\ \A ID \in P1..P4 :
                    report'[PrimaryOf(ID)] \in {"WON", "LOST", "PUSHED"}
       /\ pc' = "newRound" => round' <= LastRound
       /\ pc' = "done" => /\ round = LastRound
                          /\ round' = LastRound + 1
                          /\ pc = "results"
       /\ (pc = "newRound" /\ pc' # pc)
            => pc' = "shuffle" /\ round' = round
      ]_vars

\* C19 witness: round 999 has been played to its results and the loop is
\* left
C19_Witness_LoopLeftAfter999 ==
    /\ pc = "done"
    /\ round = LastRound + 1
    /\ \A ID \in P1..P4 : report[PrimaryOf(ID)] \in {"WON", "LOST", "PUSHED"}

\* C20: a seat whose first hand is worth 21 on its two starting cards is
\* asked nothing: the next thing playTurn does is send "You got TAPJACK!"
\* and return, with no card dealt, no split and the hand as it was.
C20_NaturalEndsTurn ==
    [][(/\ pc = "turn" /\ tpc = "A" /\ askSplit # 0
        /\ hands[SecondaryOf(pNow)].empty # 0
        /\ hands[PrimaryOf(pNow)].handsize = 2
        /\ hands[PrimaryOf(pNow)].handvalue = 21)
         => /\ msg' = "You got TAPJACK!"
            /\ ~TurnSplitOffer
            /\ indexG' = indexG
            /\ hands'[PrimaryOf(pNow)] = hands[PrimaryOf(pNow)]
            /\ hands'[SecondaryOf(pNow)] = emptyHand
            /\ ~(pc' = "turn" /\ pNow' = pNow)
      ]_vars

\* C20 witness: the seat before the current one held an Ace and a
\* ten-valued card and its turn ended at once
C20_Witness_NaturalReturned ==
    /\ pc = "turn"
    /\ pNow > P1
    /\ tpc = "A"
    /\ askSplit = 1
    /\ msg = "You got TAPJACK!"
    /\ hands[PrimaryOf(pNow - 1)].handsize = 2
    /\ hands[PrimaryOf(pNow - 1)].handvalue = 21
    /\ hands[SecondaryOf(pNow - 1)].empty # 0

\* seat 1's first hand holds exactly an Ace and a King, dealt from empty
HoldsAceKing ==
    /\ pc = "calls"
    /\ hands["p1b"].empty # 0
    /\ hands["p1a"].handsize = 2
    /\ {hands["p1a"].rank[0], hands["p1a"].rank[1]} = {1, 13}

\* C21 as stated: a hand dealt exactly an Ace and a King from empty, in
\* either order, has handvalue 21 and soft 0.
C21_AceKingNotSoft ==
    HoldsAceKing => /\ hands["p1a"].handvalue = 21
                    /\ hands["p1a"].soft = 0

\* C21 amended: a hand dealt exactly an Ace and a King from empty, in either
\* order, has handvalue 21, is not busted, and has soft 1: the Ace is still
\* counted as 11.
C21_AceKingIsSoft21 ==
    HoldsAceKing => /\ hands["p1a"].handvalue = 21
                    /\ hands["p1a"].soft = 1
                    /\ hands["p1a"].busted = 0

\* C21 witness: the King came first, the Ace second
C21_Witness_KingThenAce ==
    /\ HoldsAceKing
    /\ hands["p1a"].rank[0] = 13
    /\ hands["p1a"].rank[1] = 1

\* C22: in the results of a round whose dealer is busted, every hand that
\* was played and is not busted is reported WON.
C22_BustedDealerPaysAll ==
    (msg = "results" /\ hands["dealer"].busted # 0)
      => \A h \in PlayerHands :
           (report[h] # "none" /\ hands[h].busted = 0) => report[h] = "WON"

\* C22 witness: the dealer busted and both hands of a split, neither
\* busted, were reported WON
C22_Witness_SplitHandsWon ==
    /\ msg = "results"
    /\ hands["dealer"].busted # 0
    /\ hands["dealer"].handvalue > 21
    /\ \E ID \in P1..P4 :
         /\ hands[SecondaryOf(ID)].empty = 0
         /\ hands[SecondaryOf(ID)].busted = 0
         /\ hands[PrimaryOf(ID)].busted = 0
         /\ report[SecondaryOf(ID)] = "WON"
         /\ report[PrimaryOf(ID)] = "WON"

\* C23: for every interleaving of the overflow handler with USS_distance,
\* the value of timerOverflow that goes into count is the number of timer
\* overflows between the clear of timerOverflow and the capture of the
\* falling edge.
C23_OverflowCountExact ==
    dpc = "done" => ovfUsed = trueOvf

\* C24: from the moment newRound has emptied the hands until the starting
\* deal, in every round, each of the nine hands has handsize 0, handvalue 0,
\* soft 0, busted 0, empty 1 and no face-down flag set, and indexG is 0.
C24_NewRoundResets ==
    pc \in {"shuffle", "deal"}
      => /\ indexG = 0
         /\ \A h \in HandNames :
              /\ hands[h].handsize = 0
              /\ hands[h].handvalue = 0
              /\ hands[h].soft = 0
              /\ hands[h].busted = 0
              /\ hands[h].empty = 1
              /\ \A i \in 0..(MAXHAND - 1) : hands[h].isFaceDown[i] = 0

\* C24 witness: newRound has run for the second round, after a first round
\* that was played to its results
C24_Witness_SecondRoundReset ==
    /\ pc = "deal"
    /\ round = 2
    /\ rankG # initDeck.rank
    /\ hands["dealer"].handsize = 0

\* what dealCard's scoring is to make of hand p and a card of rank r
ScoredAsStated(p, r) ==
    LET add == IF r = 1 THEN 11 ELSE IF r \in 10..13 THEN 10 ELSE r
        v == p.handvalue + add
        sf == IF r = 1 THEN p.soft + 1 ELSE p.soft
    IN IF v > 21 /\ sf > 0
       THEN [p EXCEPT !.handvalue = v - 10, !.soft = sf - 1]
       ELSE IF v > 21
       THEN [p EXCEPT !.handvalue = v, !.soft = sf, !.busted = 1]
       ELSE [p EXCEPT !.handvalue = v, !.soft = sf]

\* C25: for every hand the calls lead to and every rank, dealCard's scoring
\* adds 11 and one soft count for an Ace, 10 for ranks 10..13 and the rank
\* for 2..9; if the sum is over 21 and the soft count is positive it takes
\* 10 off the value and 1 off the soft count, once and no more, leaving
\* busted as it was; if the sum is over 21 and the soft count is 0 it sets
\* busted.
C25_ScoringRule ==
    pc = "calls"
      => \A h \in {"p1a", "p1b"} : \A r \in 1..MAXSUIT :
           scoreCard(hands[h], r) = ScoredAsStated(hands[h], r)

\* C25 witness: a hand took a second Ace at 21: two Aces stood at 11, one of
\* them was reinterpreted, and the hand is left at 22
C25_Witness_OneReinterpretation ==
    /\ pc = "calls"
    /\ hands["p1a"].handsize = 3
    /\ hands["p1a"].rank[2] = 1
    /\ hands["p1a"].handvalue = 22
    /\ hands["p1a"].soft = 1

\* C26: a split made in a round leaves the first hand's first card in
\* place, makes its former second card the first card of the second hand,
\* deals the card at the cursor to the first hand and the next one to the
\* second hand, so that both hands hold 2 cards and indexG is up by 2; no
\* other hand changes.
C26_SplitDealsOneEach ==
    [][(TurnSplitOffer /\ msg' = "You split!")
         => \A ID \in {pNow} :
              LET a == hands[PrimaryOf(ID)]
                  a2 == hands'[PrimaryOf(ID)]
                  b2 == hands'[SecondaryOf(ID)]
              IN /\ a2.rank[0] = a.rank[0] /\ a2.suit[0] = a.suit[0]
                 /\ b2.rank[0] = a.rank[1] /\ b2.suit[0] = a.suit[1]
                 /\ a2.rank[1] = rankG[indexG]
                 /\ a2.suit[1] = suitG[indexG]
                 /\ b2.rank[1] = rankG[indexG + 1]
                 /\ b2.suit[1] = suitG[indexG + 1]
                 /\ a2.handsize = 2 /\ b2.handsize = 2
                 /\ indexG' = indexG + 2
                 /\ \A g \in HandNames \ {PrimaryOf(ID), SecondaryOf(ID)} :
                      hands'[g] = hands[g]
      ]_vars

\* C26 witness: seat 3 has just split
C26_Witness_JustSplit ==
    /\ pc = "turn"
    /\ pNow = 3
    /\ msg = "You split!"
    /\ hands["p3a"].handsize = 2
    /\ hands["p3b"].handsize = 2

\* C27: wherever the round engine looks at a hand (in the turns, the
\* dealer's loop and the results) its empty flag is 1 exactly if it holds no
\* card; a seat's second hand goes from empty to non-empty exactly in the
\* step in which that seat splits, and stays non-empty until newRound.
C27_EmptyFlag ==
    [][/\ pc \in {"turn", "dealer", "results"}
            => \A h \in HandNames :
                 /\ hands[h].empty \in {0, 1}
                 /\ hands[h].empty = 1 <=> hands[h].handsize = 0
       /\ \A ID \in P1..P4 :
            /\ (hands[SecondaryOf(ID)].empty # 0
                   /\ hands'[SecondaryOf(ID)].empty = 0)
                 <=> (TurnSplitOffer /\ msg' = "You split!" /\ pNow = ID)
            /\ (hands[SecondaryOf(ID)].empty = 0
                   /\ hands'[SecondaryOf(ID)].empty # 0)
                 => pc = "newRound"
      ]_vars

\* C27 witness: at the results one seat has a second hand from its split
\* and another seat has none
C27_Witness_OneSeatSplit ==
    /\ pc = "results"
    /\ \E ID \in P1..P4 : /\ hands[SecondaryOf(ID)].empty = 0
                          /\ hands[SecondaryOf(ID)].handsize >= 2
    /\ \E ID \in P1..P4 : /\ hands[SecondaryOf(ID)].empty = 1
                          /\ hands[SecondaryOf(ID)].handsize = 0

\* C28: what USS_move returns for a distance d is HIT exactly if
\* DIST_HIT < d < DIST_HIT + WIDTH, STAY exactly if
\* DIST_STAY < d < DIST_STAY + WIDTH, and NOACTION in every other case; the
\* two zones do not overlap; the four border distances and the readings
\* below and above both zones give NOACTION.
C28_ZoneClassification ==
    /\ DIST_HIT + WIDTH <= DIST_STAY
    /\ mpc = "ret"
         => /\ moveRet = HIT
                 <=> (DIST_HIT < distance /\ distance < DIST_HIT + WIDTH)
            /\ moveRet = STAY
                 <=> (DIST_STAY < distance /\ distance < DIST_STAY + WIDTH)
            /\ moveRet = NOACTION
                 <=> ~(DIST_HIT < distance /\ distance < DIST_HIT + WIDTH)
                     /\ ~(DIST_STAY < distance
                            /\ distance < DIST_STAY + WIDTH)
            /\ distance \in {DIST_HIT, DIST_HIT + WIDTH, DIST_STAY,
                             DIST_STAY + WIDTH}
                 => moveRet = NOACTION
            /\ (distance < DIST_HIT \/ distance > DIST_STAY + WIDTH)
                 => moveRet = NOACTION

\* C28 witness: USS_move has returned NOACTION for the far border of the
\* HIT zone
C28_Witness_BorderIsNoAction ==
    /\ mpc = "ret"
    /\ distance = DIST_HIT + WIDTH
    /\ moveRet = NOACTION

\* position k of the classifications c holds an action that follows a
\* NOACTION
CommitsAt(c, k) ==
    /\ c[k] \in {HIT, STAY}
    /\ \E j \in 1..(k - 1) : c[j] = NOACTION

\* C29: userInput hands back nothing but HIT or STAY; the step in which it
\* returns is the one in which USS_move's classifications of this call hold,
\* for the first time, a HIT or STAY after a NOACTION, and the value
\* returned is that HIT or STAY; as long as the classifications hold no such
\* pair userInput has not returned.
C29_InputReturnsHitOrStay ==
    [][/\ inputRet' \in {ERROR, HIT, STAY}
       /\ inputRet' = ERROR => inputRet = ERROR
       /\ (upc # "idle" /\ upc' = "idle")
            => /\ inputRet' \in {HIT, STAY}
               /\ CommitsAt(cls, Len(cls))
               /\ inputRet' = cls[Len(cls)]
               /\ \A k \in 1..(Len(cls) - 1) : ~CommitsAt(cls, k)
       /\ (upc' # "idle" /\ mpc' # "ret")
            => \A k \in 1..Len(cls') : ~CommitsAt(cls', k)
       /\ (upc' # "idle" /\ upc # "idle") => inputRet' = inputRet
      ]_vars

\* C29 witness: the call went on waiting through two NOACTION
\* classifications and returned the STAY that came next
C29_Witness_ReturnedAfterWaiting ==
    /\ upc = "idle"
    /\ inputRet = STAY
    /\ cls = <<NOACTION, NOACTION, STAY>>

\* C30: in a round no hand has handvalue over 21 with busted clear; every
\* card a player hand gets in its turn goes to a hand that is not busted
\* and not at 21, the two hands of a split included; every card the dealer
\* draws goes to a dealer's hand that is not busted and is below 18.
C30_NoDealPastTheEnd ==
    [][/\ \A h \in HandNames :
            hands[h].busted = 0 => hands[h].handvalue <= 21
       /\ \A h \in PlayerHands :
            (pc = "turn" /\ hands'[h] # hands[h])
              => /\ hands[h].busted = 0
                 /\ hands[h].handvalue # 21
                 /\ msg' = "You split!"
                      => /\ splitMove(Cur, pNow).hands[h].busted = 0
                         /\ splitMove(Cur, pNow).hands[h].handvalue < 21
       /\ (pc = "dealer" /\ hands'["dealer"] # hands["dealer"])
            => /\ hands["dealer"].busted = 0
               /\ hands["dealer"].handvalue < 18
      ]_vars

\* C30 witness: the dealer has drawn to a total between 18 and 21 and stops
\* drawing, in a round in which a player hand was hit to 21
C30_Witness_DrawnToStand ==
    /\ pc = "dealer"
    /\ msg = "Dealer hits!"
    /\ hands["dealer"].handsize >= 3
    /\ hands["dealer"].busted = 0
    /\ hands["dealer"].handvalue \in 18..21
    /\ \E h \in PlayerHands : /\ hands[h].handsize >= 3
                              /\ hands[h].handvalue = 21
                              /\ hands[h].busted = 0

\* C31: in no round does dealCard reach its error branch: the error text is
\* never sent, and whenever cards can still be dealt in the round (the
\* initial deal, a hit, a split's two cards, a dealer's draw) the cursor is
\* below the deck's end with room for a split's second card and every hand
\* holds fewer than MAXHAND cards, so the dealer's draw loop never repeats a
\* failing deal.
C31_DealNeverFails ==
    /\ msg # CannotDeal
    /\ pc \in {"deal", "turn", "dealer"}
         => /\ indexG + 1 < SINGLEDECK
            /\ \A h \in HandNames : hands[h].handsize < MAXHAND

\* C31 witness: the dealer draws to a hand of four cards or more in a round
\* in which a seat has split and more than twenty cards have left the deck
C31_Witness_LongRound ==
    /\ pc = "dealer"
    /\ msg = "Dealer hits!"
    /\ hands["dealer"].handsize >= 4
    /\ indexG > 20
    /\ \E h \in {"p1b", "p2b", "p3b", "p4b"} : hands[h].empty = 0


\* the cards the nine hands hold, as (rank, suit) pairs
HeldCards ==
    {<<hands[h].rank[i], hands[h].suit[i]>> :
        <<h, i>> \in {x \in HandNames \X (0..(MAXHAND - 1)) :
                        x[2] < hands[x[1]].handsize}}

\* the cards at deck positions 0..indexG-1
DealtCards == {<<rankG[i], suitG[i]>> : i \in 0..(indexG - 1)}

\* the sum of the nine handsize fields
TotalHandsize ==
    hands["p1a"].handsize + hands["p1b"].handsize + hands["p2a"].handsize
      + hands["p2b"].handsize + hands["p3a"].handsize + hands["p3b"].handsize
      + hands["p4a"].handsize + hands["p4b"].handsize
      + hands["dealer"].handsize

\* C32: between the calls of dealCard and split, the nine hands hold exactly
\* the cards at deck positions 0..indexG-1, each of them once: the handsize
\* fields add up to indexG, the cards held are indexG different cards, and
\* they are the cards before the cursor; this also holds after a split.
C32_HandsHoldTheDealtCards ==
    /\ TotalHandsize = indexG
    /\ Cardinality(HeldCards) = indexG
    /\ HeldCards = DealtCards

\* C32 witness: the dealer's turn is reached with one seat playing two hands
\* of three cards or more each after a split
C32_Witness_BothSplitHandsHit ==
    /\ pc = "dealer"
    /\ \E ID \in P1..P4 :
         /\ hands[SecondaryOf(ID)].empty = 0
         /\ hands[PrimaryOf(ID)].handsize >= 3
         /\ hands[SecondaryOf(ID)].handsize >= 3

\* the number of Aces among the cards of hand h
AcesHeld(h) ==
    Cardinality({i \in 0..(MAXHAND - 1) :
                   i < hands[h].handsize /\ hands[h].rank[i] = 1})

\* C33: between the calls of dealCard and split in a round, every hand's
\* soft field is 0 or 1 and never more than the number of Aces the hand
\* holds: at most one Ace is counted as 11, however many Aces there are.
C33_AtMostOneSoftAce ==
    \A h \in HandNames :
       /\ hands[h].soft \in {0, 1}
       /\ hands[h].soft <= AcesHeld(h)

\* C33 witness: a hand holds two Aces or more and counts one of them as 11
C33_Witness_TwoAcesOneSoft ==
    \E h \in HandNames :
       /\ AcesHeld(h) >= 2
       /\ hands[h].soft = 1
       /\ hands[h].busted = 0

\* the fields of the dealer's hand that hold its cards and its score
DealerCards(d) ==
    [rank |-> d.rank, suit |-> d.suit, handsize |-> d.handsize,
     handvalue |-> d.handvalue, soft |-> d.soft, busted |-> d.busted]

\* C34: a step of playTurn(ID) changes, of the hands and the deck, only the
\* two hands of seat ID and the cursor: the hands of the other three seats,
\* the dealer's cards, value, soft and busted, and the deck's order stay as
\* they are.
C34_TurnTouchesOwnSeatOnly ==
    [][pc = "turn"
         => /\ \A h \in PlayerHands \ {PrimaryOf(pNow), SecondaryOf(pNow)} :
                 hands'[h] = hands[h]
            /\ DealerCards(hands'["dealer"]) = DealerCards(hands["dealer"])
            /\ rankG' = rankG
            /\ suitG' = suitG
      ]_vars

\* C34 witness: a seat after the first has just hit its hand to three cards
\* or more while the first seat holds a split pair of hands
C34_Witness_LaterSeatHits ==
    /\ pc = "turn"
    /\ pNow > P1
    /\ msg = "You hit!"
    /\ hands[CurHand].handsize >= 3
    /\ hands["p1b"].empty = 0
    /\ hands["dealer"].handsize = 2

\* C35: the step in which a seat answers STAY to the split question changes
\* neither the hands nor the cursor, stays in the seat's first loop and
\* clears askSplit; the step that follows it is the hit or the stay of the
\* same seat on its first hand, which still holds the two cards of the pair,
\* and never the question again.
C35_DeclinedSplitChangesNothing ==
    [][/\ (pc = "turn" /\ msg' = "SPLIT?")
            => /\ hands' = hands
               /\ indexG' = indexG
               /\ askSplit' = 0
               /\ pc' = "turn" /\ pNow' = pNow /\ tpc' = "A"
               /\ hands[SecondaryOf(pNow)].empty # 0
       /\ (pc = "turn" /\ msg = "SPLIT?")
            => /\ tpc = "A"
               /\ hands[PrimaryOf(pNow)].handsize = 2
               /\ hands[PrimaryOf(pNow)].rank[0]
                     = hands[PrimaryOf(pNow)].rank[1]
               /\ msg' \in {"You hit!", "You stayed!"}
               /\ msg' = "You hit!"
                    => /\ pNow' = pNow
                       /\ hands'[PrimaryOf(pNow)].handsize = 3
               /\ msg' = "You stayed!"
                    => hands'[PrimaryOf(pNow)] = hands[PrimaryOf(pNow)]
               /\ \A h \in PlayerHands \ {PrimaryOf(pNow)} :
                    hands'[h] = hands[h]
      ]_vars

\* C35 witness: a seat has just answered STAY to the split question for its
\* pair; the second hand is still empty
C35_Witness_JustDeclined ==
    /\ pc = "turn"
    /\ msg = "SPLIT?"
    /\ askSplit = 0
    /\ hands[PrimaryOf(pNow)].handsize = 2
    /\ hands[PrimaryOf(pNow)].rank[0] = hands[PrimaryOf(pNow)].rank[1]
    /\ hands[SecondaryOf(pNow)].empty # 0

\* C36: with every userInput call returning, every round that has begun
\* comes to its end: from the shuffle, the deal, any point of a seat's turn
\* and any point of the dealer's draws, the display of the outcomes is
\* reached.
C36_RoundTerminates ==
    (pc \in {"shuffle", "deal", "turn", "dealer", "results"})
       ~> (msg = "results" /\ pc \in {"newRound", "done"})

\* C36 witness: the outcomes are displayed at the end of a round in which a
\* player hand was hit to four cards or more and the dealer drew as well
C36_Witness_LongRoundEnded ==
    /\ msg = "results"
    /\ pc = "newRound"
    /\ hands["dealer"].handsize >= 3
    /\ \E h \in PlayerHands : hands[h].handsize >= 4

\* C37: for every combination of a hand's value and busted flag with the
\* dealer's value and busted flag, dispResults sends exactly one of LOST,
\* PUSHED and WON for the hand, and never its last branch's text: LOST for a
\* busted hand or a lower hand against a dealer not busted, PUSHED for an
\* equal hand not busted, WON otherwise; selectPlayer is never called with
\* DEALER, neither by dispResults nor by dispUpper for any ID.
C37_OutcomeCascadeComplete ==
    /\ msg # selectPlayerError
    /\ \A ID \in {DEALER} \cup (P1..P4) : dispUpperIDs(ID) \subseteq P1..P4
    /\ \A h \in PlayerHands :
         /\ report[h] \in {"none", "LOST", "PUSHED", "WON"}
         /\ (msg = "results" /\ report[h] # "none")
              => LET p == hands[h]
                     d == hands["dealer"] IN
                 /\ report[h] = "LOST"
                      <=> (p.busted # 0
                             \/ (p.handvalue < d.handvalue /\ d.busted = 0))
                 /\ report[h] = "PUSHED"
                      <=> (p.busted = 0 /\ p.handvalue = d.handvalue)
    /\ msg = "results"
         => \A h \in {"p1a", "p2a", "p3a", "p4a"} : report[h] # "none"

\* C37 witness: the outcomes are shown for a hand that is not busted and
\* lower than the hand of a busted dealer, the combination only the fourth
\* test's busted flag keeps from the last branch; both hands of the seat WON
C37_Witness_LowerHandBustedDealer ==
    /\ msg = "results"
    /\ hands["p1a"].busted = 0
    /\ hands["dealer"].busted = 1
    /\ hands["p1a"].handvalue < hands["dealer"].handvalue
    /\ report["p1a"] = "WON"
    /\ report["p1b"] = "WON"

====
